---- MODULE Spec2Model ----
(***************************************************************************)
(* Model of the checkout test suite: the step result reporter             *)
(* (utils/csv_reporter.py), the end-to-end checkout test                  *)
(* (tests/test_05_complete_checkout_flow.py) and the page-object methods  *)
(* it drives (pages/*.py).  The browser and the site are the environment: *)
(* every element wait either succeeds or times out, chosen with \E.       *)
(***************************************************************************)
EXTENDS Integers, Sequences, FiniteSets, TLC

(* ------------------------------ bounds -------------------------------- *)

\* The clock runs from 0 to MaxNow ticks.
MaxNow == 3
\* Longest an end-to-end run takes, in ticks.
MaxRunTicks == 0
\* Clock ticks per second: datetime.now() is finer than the one-second
\* resolution of the report's timestamp.
TicksPerSecond == 2
\* Longest products_to_search list of the test data.
MaxProducts == 4
\* Largest number of rows the cart page shows.
MaxCartItems == 1
\* Largest value drawn for Faker's random_number.
MaxRandom == 0
\* Most rows one reporter is given through its interface.
MaxRows == 3
\* Longest duration handed to add_step, in ticks.
MaxDuration == 1
\* Most runs that follow one another.
MaxRuns == 2
\* Most tests that run one after another in a pytest run.
MaxTests == 2
\* Most calls of get_user_credentials that follow one another.
MaxCalls == 3
\* Largest value drawn for Faker's random_number when credentials are
\* generated again and again.
MaxDraw == 1
\* Most rows of a reporter whose report is written and read back.
MaxExportRows == 2
\* Largest return code of the test process.
MaxReturnCode == 60
\* Largest number of a signal that ends the test process.
MaxSignal == 15

(* -------------------------- program constants ------------------------- *)

\* products_to_add[:3]
AddLimit == 3
\* success_message[:50]
MessageCut == 50
\* The slice products[:2] of the cart_with_items fixture.
FixtureLimit == 2

(* ------------------------------ strings ------------------------------- *)

Digits == <<"0", "1", "2", "3", "4", "5", "6", "7", "8", "9">>

RECURSIVE str(_)
\* str(n) / f"{n}" for a natural number n.
str(n) ==
    IF n < 10 THEN Digits[n + 1] ELSE str(n \div 10) \o Digits[(n % 10) + 1]

\* sub in s
Contains(sub, s) ==
    \E i \in 1..(Len(s) - Len(sub) + 1) : SubSeq(s, i, i + Len(sub) - 1) = sub

UpperLetters == "ABCDEFGHIJKLMNOPQRSTUVWXYZ"
LowerLetters == "abcdefghijklmnopqrstuvwxyz"

LowerChar(c) ==
    IF \E i \in 1..Len(UpperLetters) : SubSeq(UpperLetters, i, i) = c
    THEN LET i == CHOOSE j \in 1..Len(UpperLetters) : SubSeq(UpperLetters, j, j) = c
         IN  SubSeq(LowerLetters, i, i)
    ELSE c

RECURSIVE lower(_)
\* s.lower()
lower(s) ==
    IF s = "" THEN "" ELSE LowerChar(SubSeq(s, 1, 1)) \o lower(SubSeq(s, 2, Len(s)))

\* s[:n]
Prefix(s, n) == SubSeq(s, 1, IF Len(s) < n THEN Len(s) ELSE n)

(* ----------------------------- exceptions ----------------------------- *)

\* str(e) of the exceptions an element wait raises.  Selenium's own text is
\* outside the repository; the model keeps the exception's type name as its
\* text, so that a timeout stays recognisable in an error message.
TimeoutException == "TimeoutException"
ElementNotInteractableException == "ElementNotInteractableException"
Exceptions == {TimeoutException, ElementNotInteractableException}

(* --------------------------- utils/csv_reporter ----------------------- *)

headers ==
    <<"Step Number", "Step Name", "Status", "Duration (seconds)", "Details",
      "Error Message">>

\* datetime.now().strftime('%Y%m%d_%H%M%S'): the clock cut to whole seconds.
strftime(t) == str(t \div TicksPerSecond)

\* round(duration, 2) of a duration of d ticks, in hundredths of a second.
round2(d) == (200 * d + TicksPerSecond) \div (2 * TicksPerSecond)

\* CSVReporter.__init__
CSVReporter(report_name, t) ==
    [report_name |-> report_name,
     csv_file    |-> "reports/" \o report_name \o "_" \o strftime(t) \o ".csv",
     steps       |-> << >>]

\* The step row add_step builds.  The Step Number cell is <<n>> for the
\* integer n and << >> for the summary's empty string.
StepRow(step_number, step_name, status, duration, details, error_message) ==
    [number   |-> <<step_number>>,
     name     |-> step_name,
     status   |-> status,
     duration |-> round2(duration),
     details  |-> details,
     error    |-> error_message]

\* A row add_step made, as opposed to the summary row, whose number is ''.
IsStepRow(row) == row.number # << >>

\* An add_step that refuses a step number other than the next one and leaves
\* the rows as they are: what the code does not do, as C12 has to show.
add_step_checked(steps, step_number, step_name, status, duration, details, error_message) ==
    IF step_number = Len(SelectSeq(steps, IsStepRow))
    THEN Append(steps, StepRow(step_number, step_name, status, duration, details,
                               error_message))
    ELSE steps

\* A faulty add_step that puts the new row first, self.steps.insert(0, step):
\* the step-number property C2 has to tell it from add_step.
add_step_front(steps, step_number, step_name, status, duration, details, error_message) ==
    <<StepRow(step_number, step_name, status, duration, details, error_message)>> \o steps

\* CSVReporter.add_step, on the list self.steps.
add_step(steps, step_number, step_name, status, duration, details, error_message) ==
    Append(steps, StepRow(step_number, step_name, status, duration, details,
                          error_message))

RECURSIVE CountStatus(_, _)
\* sum(1 for step in steps if step['Status'] == status)
CountStatus(steps, status) ==
    IF steps = << >> THEN 0
    ELSE (IF Head(steps).status = status THEN 1 ELSE 0) + CountStatus(Tail(steps), status)

RECURSIVE SumDuration(_)
\* sum(step['Duration (seconds)'] for step in steps)
SumDuration(steps) ==
    IF steps = << >> THEN 0 ELSE Head(steps).duration + SumDuration(Tail(steps))

\* A faulty summary status that forgives one failure: the summary property C3
\* has to tell it from SummaryStatus.
SummaryStatus_lenient(failed_steps) == IF failed_steps <= 1 THEN "PASSED" ELSE "FAILED"

\* 'PASSED' if failed_steps == 0 else 'FAILED'
SummaryStatus(failed_steps) == IF failed_steps = 0 THEN "PASSED" ELSE "FAILED"

\* The summary row add_summary builds from self.steps.
SummaryRow(steps) ==
    LET total_steps  == Len(steps)
        passed_steps == CountStatus(steps, "SUCCESS")
        failed_steps == total_steps - passed_steps
    IN  [number   |-> << >>,
         name     |-> "SUMMARY",
         status   |-> SummaryStatus(failed_steps),
         duration |-> SumDuration(steps),
         details  |-> "Total: " \o str(total_steps) \o ", Passed: "
                          \o str(passed_steps) \o ", Failed: " \o str(failed_steps),
         error    |-> ""]

\* A faulty add_summary that writes the summary row over the last row: the
\* append-only property C23 has to tell it from add_summary.
add_summary_over(steps) ==
    IF steps = << >> THEN <<SummaryRow(steps)>>
    ELSE [steps EXCEPT ![Len(steps)] = SummaryRow(steps)]

\* A faulty add_summary that puts the summary row first: the artifact
\* property C14 has to tell it from add_summary.
add_summary_first(steps) == <<SummaryRow(steps)>> \o steps

\* CSVReporter.add_summary, on the list self.steps.
add_summary(steps) == Append(steps, SummaryRow(steps))

(* ------------ csv.DictWriter, as generate_report uses it -------------- *)

\* The k-th character of s.
Char(s, k) == SubSeq(s, k, k)

\* The characters that make the writer quote a field (QUOTE_MINIMAL): the
\* delimiter, the quote character and those of the line terminator.
SpecialChars == {",", "\"", "\r", "\n"}
NeedsQuote(s) == \E k \in 1..Len(s) : Char(s, k) \in SpecialChars

RECURSIVE DoubleQuotes(_)
\* doublequote=True: each quote character inside a field is written twice.
DoubleQuotes(s) ==
    IF s = "" THEN ""
    ELSE (IF Char(s, 1) = "\"" THEN "\"\"" ELSE Char(s, 1))
             \o DoubleQuotes(SubSeq(s, 2, Len(s)))

\* A faulty writer that quotes no field: the round-trip property C13 has to
\* tell it from CsvField.
CsvField_plain(s) == s

\* One field as the writer puts it on the line.
CsvField(s) == IF NeedsQuote(s) THEN "\"" \o DoubleQuotes(s) \o "\"" ELSE s

\* str() of a duration, a float rounded to two places and kept here in
\* hundredths: 50 is written 0.5, 5 is written 0.05, 100 is written 1.0.
FormatFloat(h) ==
    LET c == h % 100
    IN  str(h \div 100) \o "."
            \o (IF c % 10 = 0 THEN str(c \div 10)
                ELSE (IF c < 10 THEN "0" ELSE "") \o str(c))

\* str() of the 'Step Number' cell: an int, or '' in the summary row.
FormatNumber(number) == IF number = << >> THEN "" ELSE str(number[1])

\* The cells of a row as strings, in the order of fieldnames.
RowCells(row) ==
    <<FormatNumber(row.number), row.name, row.status, FormatFloat(row.duration),
      row.details, row.error>>

RECURSIVE JoinFields(_)
\* The fields of one record, quoted where needed, with the delimiter between.
JoinFields(cells) ==
    IF cells = << >> THEN ""
    ELSE IF Len(cells) = 1 THEN CsvField(cells[1])
    ELSE CsvField(cells[1]) \o "," \o JoinFields(Tail(cells))

\* writer.writerow: the record and the line terminator.
writerow(cells) == JoinFields(cells) \o "\r\n"

RECURSIVE writerows(_)
\* writer.writerows(self.steps)
writerows(steps) ==
    IF steps = << >> THEN ""
    ELSE writerow(RowCells(Head(steps))) \o writerows(Tail(steps))

\* What generate_report writes to self.csv_file: writeheader(), writerows().
ReportFile(steps) == writerow(headers) \o writerows(steps)

(* ------------- reading a report back: csv.DictReader ------------------ *)

RECURSIVE QuotedEnd(_, _)
\* The position of the quote that closes a quoted field, searched from k on;
\* a doubled quote stands for one quote inside the field.
QuotedEnd(text, k) ==
    IF k > Len(text) THEN k
    ELSE IF Char(text, k) # "\"" THEN QuotedEnd(text, k + 1)
    ELSE IF k < Len(text) /\ Char(text, k + 1) = "\"" THEN QuotedEnd(text, k + 2)
    ELSE k

RECURSIVE PlainEnd(_, _)
\* The position after an unquoted field that starts at k.
PlainEnd(text, k) ==
    IF k > Len(text) \/ Char(text, k) \in {",", "\r", "\n"} THEN k
    ELSE PlainEnd(text, k + 1)

RECURSIVE Undouble(_)
\* The text of a quoted field, each doubled quote read as one.
Undouble(s) ==
    IF s = "" THEN ""
    ELSE IF Len(s) >= 2 /\ SubSeq(s, 1, 2) = "\"\"" THEN "\"" \o Undouble(SubSeq(s, 3, Len(s)))
    ELSE Char(s, 1) \o Undouble(SubSeq(s, 2, Len(s)))

\* The field that starts at k, and the position after it.
ReadField(text, k) ==
    IF k <= Len(text) /\ Char(text, k) = "\""
    THEN LET e == QuotedEnd(text, k + 1)
         IN  [value |-> Undouble(SubSeq(text, k + 1, e - 1)), next |-> e + 1]
    ELSE LET e == PlainEnd(text, k)
         IN  [value |-> SubSeq(text, k, e - 1), next |-> e]

RECURSIVE ReadRecord(_, _)
\* The record that starts at k, and the position after its line terminator:
\* a delimiter goes on with the record, a line terminator ends it.
ReadRecord(text, k) ==
    LET f == ReadField(text, k)
    IN  IF f.next <= Len(text) /\ Char(text, f.next) = ","
        THEN LET rest == ReadRecord(text, f.next + 1)
             IN  [cells |-> <<f.value>> \o rest.cells, next |-> rest.next]
        ELSE [cells |-> <<f.value>>,
              next  |-> IF f.next < Len(text) /\ SubSeq(text, f.next, f.next + 1) = "\r\n"
                        THEN f.next + 2 ELSE f.next + 1]

RECURSIVE ReadRecords(_, _)
\* The records of the text from k on.
ReadRecords(text, k) ==
    IF k > Len(text) THEN << >>
    ELSE LET record == ReadRecord(text, k)
         IN  <<record.cells>> \o ReadRecords(text, record.next)

\* csv.reader over the whole file.
reader(text) == ReadRecords(text, 1)

\* The value of a decimal digit.
DigitValue(c) == CHOOSE d \in 0..9 : Digits[d + 1] = c

RECURSIVE ParseInt(_)
\* int(s) of a string of digits.
ParseInt(s) ==
    IF s = "" THEN 0
    ELSE 10 * ParseInt(SubSeq(s, 1, Len(s) - 1)) + DigitValue(Char(s, Len(s)))

\* The position of the decimal point in s, or 0.
PointAt(s) ==
    IF \E k \in 1..Len(s) : Char(s, k) = "."
    THEN CHOOSE k \in 1..Len(s) : Char(s, k) = "." ELSE 0

\* float(s), in hundredths, of a number written with up to two decimals.
ParseFloat(s) ==
    LET p == PointAt(s)
        whole == IF p = 0 THEN s ELSE SubSeq(s, 1, p - 1)
        part == IF p = 0 THEN "" ELSE SubSeq(s, p + 1, Len(s))
    IN  100 * ParseInt(whole)
            + (IF Len(part) = 0 THEN 0
               ELSE IF Len(part) = 1 THEN 10 * ParseInt(part)
               ELSE ParseInt(SubSeq(part, 1, 2)))

\* s is made of decimal digits, with a decimal point among them if point.
IsNumeral(s, point) ==
    /\ s # ""
    /\ \A k \in 1..Len(s) :
        \/ \E d \in 1..Len(Digits) : Digits[d] = Char(s, k)
        \/ point /\ Char(s, k) = "." /\ k = PointAt(s) /\ Len(s) > 1

\* One record of the file as a row, each cell read with the type of its
\* column; a record that does not fit the columns is kept as it is.
ParseRow(cells) ==
    IF /\ Len(cells) = Len(headers)
       /\ cells[1] = "" \/ IsNumeral(cells[1], FALSE)
       /\ IsNumeral(cells[4], TRUE)
    THEN [number   |-> IF cells[1] = "" THEN << >> ELSE <<ParseInt(cells[1])>>,
          name     |-> cells[2],
          status   |-> cells[3],
          duration |-> ParseFloat(cells[4]),
          details  |-> cells[5],
          error    |-> cells[6]]
    ELSE [number   |-> << >>,
          name     |-> "",
          status   |-> "",
          duration |-> 0,
          details  |-> "",
          error    |-> "",
          unread   |-> cells]

\* The file read back: its header record, and its rows.
ParseReport(text) ==
    LET records == reader(text)
    IN  [header |-> IF records = << >> THEN << >> ELSE Head(records),
         rows   |-> IF records = << >> THEN << >>
                    ELSE [k \in 1..(Len(records) - 1) |-> ParseRow(records[k + 1])]]

(* ------------------------ utils/test_data_reader ---------------------- *)

\* The email get_user_credentials builds from int(time.time()) and Faker's
\* random_number r.
get_user_credentials(t, r) ==
    "testuser_" \o str(t \div TicksPerSecond) \o "_" \o str(r) \o "@example.com"

(* ---------------------------- page objects ---------------------------- *)

\* What a page-object method does: returns a value, or raises.
Ret(v) == [raised |-> FALSE, value |-> v, exc |-> ""]
Raise(e) == [raised |-> TRUE, value |-> FALSE, exc |-> e]

\* The outcome of one element action: "ok", or the text of what it raised.
ActionOutcomes == {"ok"} \cup Exceptions

\* LoginPage.logout: logged_in is its own is_logged_in(), click the click on
\* the logout link, login_visible the wait for the login link.
logout(logged_in, click, login_visible) ==
    IF logged_in
    THEN IF click # "ok" THEN Raise(click) ELSE Ret(login_visible)
    ELSE Ret(FALSE)

\* A faulty login that reports success once the form is submitted, without
\* looking for the logout link: the post-condition property C19 has to tell
\* it from login.
login_unchecked(actions, logged_in) ==
    IF actions # "ok" THEN Raise(actions) ELSE Ret(TRUE)

\* LoginPage.login: actions is the outcome of navigate, enter_email,
\* enter_password and click_login_button together, logged_in the
\* is_logged_in() that follows.
login(actions, logged_in) ==
    IF actions # "ok" THEN Raise(actions) ELSE Ret(logged_in)

\* CheckoutPage.get_order_success_message: text is the element's text, or the
\* exception get_text raised; an exception is swallowed.
get_order_success_message(found, text) == IF found THEN text ELSE ""

\* The test's check of the success message.
MessageAccepted(success_message) ==
    \/ Contains("successfully", lower(success_message))
    \/ Contains("processed", lower(success_message))

(* ------------------ CartPage.get_cart_total --------------------------- *)

\* The locator strategies of total_locators, in order.
total_locators ==
    <<".order-total .cart-total-right strong",
      ".order-total strong",
      "//div[@class='order-total']//strong",
      "//*[contains(@class, 'order-total')]//strong",
      ".cart-total strong",
      "//span[@class='order-total']//strong">>

\* What one strategy finds: no element ("absent"), an element whose text
\* cannot be read ("raises"), or the element's text ("" when it is empty).
LocatorTexts == {"", "$10.00"}
LocatorOutcomes == {"absent", "raises"} \cup LocatorTexts

RECURSIVE FirstTotal_greedy(_, _)
\* A faulty loop without the break: it goes on after a strategy has yielded
\* text and keeps what the last one yields.  The strategy property C30 has to
\* tell it from FirstTotal.
FirstTotal_greedy(probe, k) ==
    IF k > Len(probe) THEN ""
    ELSE LET later == FirstTotal_greedy(probe, k + 1)
         IN  IF later # "" THEN later
             ELSE IF probe[k] \in {"absent", "raises", ""} THEN ""
             ELSE probe[k]

RECURSIVE FirstTotal(_, _)
\* The for loop over total_locators from strategy k on: the text of the first
\* strategy that is present and yields text, "" when there is none.
FirstTotal(probe, k) ==
    IF k > Len(probe) THEN ""
    ELSE IF probe[k] \in {"absent", "raises", ""} THEN FirstTotal(probe, k + 1)
    ELSE probe[k]

IsDigit(c) == \E d \in 1..Len(Digits) : Digits[d] = c

\* text and '$' in text and text[0].isdigit() or text.startswith('$')
FallbackMatch(text) ==
    \/ (text # "" /\ Contains("$", text) /\ IsDigit(SubSeq(text, 1, 1)))
    \/ SubSeq(text, 1, 1) = "$"

RECURSIVE FirstStrong(_)
\* The fallback loop over every <strong> of the page (texts stripped).
FirstStrong(strongs) ==
    IF strongs = << >> THEN ""
    ELSE IF FallbackMatch(Head(strongs)) THEN Head(strongs)
    ELSE FirstStrong(Tail(strongs))

\* What the fallback's driver.find_elements gives: the texts, or "raises".
StrongLists == {<< >>, <<"Total:", "3.00$">>, <<"2 item(s)">>}
FallbackOutcomes == {[raises |-> TRUE, strongs |-> << >>]}
                        \cup {[raises |-> FALSE, strongs |-> l] : l \in StrongLists}

\* A faulty get_cart_total without the "Total not displayed" placeholder: the
\* cart property C7 has to tell it from get_cart_total.
get_cart_total_blank(probe, fallback, unexpected) ==
    IF unexpected THEN "Total retrieval failed"
    ELSE LET first == FirstTotal(probe, 1)
         IN  IF first # "" THEN first
             ELSE IF fallback.raises THEN ""
             ELSE FirstStrong(fallback.strongs)

\* CartPage.get_cart_total.  probe is what each strategy finds, fallback what
\* the page-wide search finds, unexpected an exception outside the inner
\* try blocks.
get_cart_total(probe, fallback, unexpected) ==
    IF unexpected THEN "Total retrieval failed"
    ELSE LET first == FirstTotal(probe, 1)
             total == IF first # "" THEN first
                      ELSE IF fallback.raises THEN ""
                      ELSE FirstStrong(fallback.strongs)
         IN  IF total # "" THEN total ELSE "Total not displayed"

\* The probes the end-to-end test draws from: the first j - 1 strategies find
\* a and the others find b.
CartProbes ==
    {[k \in 1..Len(total_locators) |-> IF k < j THEN a ELSE b] :
        j \in 1..Len(total_locators), a \in LocatorOutcomes, b \in LocatorOutcomes}

RECURSIVE TriedLocators(_, _)
\* The number of strategies the for loop tries from strategy k on: it breaks
\* at the first one that yields text.
TriedLocators(probe, k) ==
    IF k > Len(probe) THEN Len(probe)
    ELSE IF probe[k] \in {"absent", "raises", ""} THEN TriedLocators(probe, k + 1)
    ELSE k

\* Every page a call of get_cart_total may meet: what each of the strategies
\* finds, one <strong> holding the order total and another the sub-total, and
\* what the page-wide search finds.
PageOutcomes == LocatorOutcomes \cup {"$12.50"}
CartPages ==
    {<<probe, fallback>> : probe \in [1..Len(total_locators) -> PageOutcomes],
                           fallback \in FallbackOutcomes}

(* ------------------------------- state -------------------------------- *)

VARIABLES
    test,       \* the test function being run
    pc,         \* its position
    now,        \* datetime.now(), in ticks
    reporters,  \* the CSVReporter objects constructed, in order
    files,      \* the report files on disk: path -> contents
    invoked,    \* the page-object calls made so far
    wizard,     \* the checkout wizard's actions invoked, in order
    cart_adds,  \* how many add-to-cart actions completed on the site
    cart_seen,  \* the cart item count the test observed: << >> or <<n>>
    signal,     \* the order-success title: "unknown", "seen" or "timed_out"
    email,      \* credentials['email']
    products,   \* len(products_to_add)
    added_count,\* added_count of the POPULATE_CART loop
    i,          \* the loop's index into products_to_add[:3]
    last_call,  \* the reporter method called last, with its arguments
    process,    \* what subprocess.run gave run_tests.main: << >> or <<outcome>>
    exit_status,\* what main returned: << >> or <<n>>
    issued,     \* the emails get_user_credentials returned, in call order
    sessions    \* the browser sessions the driver fixture was asked for, in order

vars ==
    <<test, pc, now, reporters, files, invoked, wizard, cart_adds, cart_seen, signal,
      email, products, added_count, i, last_call, process, exit_status, issued, sessions>>

\* A call of a reporter method: the method and, for add_step, its arguments.
ReporterCall(op, step_number, status, duration) ==
    [op |-> op, step_number |-> step_number, status |-> status, duration |-> duration]
NoCall == ReporterCall("", 0, "", 0)

\* What only run_tests.main changes.
runner == <<process, exit_status>>

\* What only the POPULATE_CART loop changes, and what only the site shows.
loop == <<cart_adds, added_count, i>>
site == <<cart_seen, signal>>

\* csv_reporter.steps of the end-to-end test.
report_steps == IF reporters = << >> THEN << >> ELSE reporters[1].steps

\* One page-object call: the step it belongs to (-1: none), the method, and
\* whether it returned ("ok") or raised.
Call(step, method, result) == [step |-> step, method |-> method, result |-> result]

\* The calls of a step that invokes methods in order, when call number f
\* raises (f = 0: none does): the calls before f return, none after f is made.
CallsUpTo(step, methods, f) ==
    [k \in 1..(IF f = 0 THEN Len(methods) ELSE f) |->
        Call(step, methods[k], IF k = f THEN "raised" ELSE "ok")]

\* The wizard actions of CheckoutPage.
WizardMethods ==
    {"fill_billing_address", "click_billing_continue", "click_shipping_continue",
     "select_shipping_method", "click_shipping_method_continue",
     "select_payment_method", "click_payment_method_continue",
     "click_payment_info_continue", "click_confirm_order"}

IsWizardCall(c) == c.method \in WizardMethods

\* capture_screenshot(name), requested during a step.
Screenshot(step, name) == Call(step, "capture_screenshot:" \o name, "ok")

\* What a page-object query returned to its caller during a step, as text.
Returned(step, method, value) == Call(step, method \o " -> " \o value, "ok")

\* str(b) of a bool.
strbool(b) == IF b THEN "True" ELSE "False"

\* The calls `made`, in order, are added to what was invoked.  A call that
\* raises has captured a screenshot first: BasePage.find_element and
\* BasePage.click do so before they raise again, and the page methods do so
\* in their except blocks.  The capture is named here after the method.
Invoke(made) ==
    /\ invoked' = invoked \cup {made[k] : k \in 1..Len(made)}
                          \cup {Screenshot(made[k].step, made[k].method \o "_failed") :
                                    k \in {j \in 1..Len(made) : made[j].result = "raised"}}
    /\ wizard' = wizard \o SelectSeq(made, IsWizardCall)

\* Time that may pass during one step, between timer.start() and timer.stop().
Elapsed == 0..(MaxRunTicks - now)

\* A faulty try branch that forgets add_step: the report property C9 has to
\* tell it from Succeed.
Succeed_unrecorded(step_number, step_name, d, details, made, next) ==
    /\ reporters' = reporters
    /\ now' = now + d
    /\ Invoke(made)
    /\ pc' = next

\* A faulty except branch that runs the step again instead of raising: the
\* one-row-per-stage property C15 has to tell it from Fail.
Fail_retry(step_number, step_name, d, details, error_message, made) ==
    /\ reporters' = [reporters EXCEPT ![1].steps =
                        add_step(@, step_number, step_name, "FAILED", d, details,
                                 error_message)]
    /\ now' = now + d
    /\ Invoke(made)
    /\ pc' = "step" \o str(step_number)

\* A faulty except branch that forgets to raise, so that the test goes on to
\* the next step: the halting property C1 has to tell it from Fail.
Fail_continue(step_number, step_name, d, details, error_message, made) ==
    /\ reporters' = [reporters EXCEPT ![1].steps =
                        add_step(@, step_number, step_name, "FAILED", d, details,
                                 error_message)]
    /\ now' = now + d
    /\ Invoke(made)
    /\ pc' = "step" \o str(step_number + 1)

\* A faulty except branch that writes the failure's text into the details
\* and the stage's details into the error message: the row property C29 has
\* to tell it from Fail.
Fail_swapped(step_number, step_name, d, details, error_message, made) ==
    /\ reporters' = [reporters EXCEPT ![1].steps =
                        add_step(@, step_number, step_name, "FAILED", d, error_message,
                                 details)]
    /\ now' = now + d
    /\ Invoke(made)
    /\ pc' = "raised"

\* The try branch's end: timer.stop(), add_step(SUCCESS), on to the next step.
Succeed(step_number, step_name, d, details, made, next) ==
    /\ reporters' = [reporters EXCEPT ![1].steps =
                        add_step(@, step_number, step_name, "SUCCESS", d, details, "")]
    /\ now' = now + d
    /\ Invoke(made)
    /\ pc' = next

\* The except branch: timer.stop(), add_step(FAILED, str(e)), raise.
Fail(step_number, step_name, d, details, error_message, made) ==
    /\ reporters' = [reporters EXCEPT ![1].steps =
                        add_step(@, step_number, step_name, "FAILED", d, details,
                                 error_message)]
    /\ now' = now + d
    /\ Invoke(made)
    /\ pc' = "raised"

(* -------------- TestCompleteCheckoutFlow.test_end_to_end_checkout_flow - *)

\* Lines 40-55: the reporter, the test data, the page objects.
Setup ==
    /\ test = "e2e" /\ pc = "setup"
    /\ \E r \in 0..MaxRandom : email' = get_user_credentials(now, r)
    /\ issued' = Append(issued, email')
    /\ reporters' = Append(reporters, CSVReporter("e2e_checkout_test", now))
    /\ pc' = "step0"
    /\ UNCHANGED <<test, now, files, invoked, wizard, products, loop, site, last_call, runner,
                   sessions>>

\* Step 0: Register new user.
Step0 ==
    /\ test = "e2e" /\ pc = "step0"
    /\ \E d \in Elapsed, navigate \in ActionOutcomes,
          register \in {Ret(TRUE), Ret(FALSE)} \cup {Raise(e) : e \in Exceptions} :
        IF navigate # "ok"
        THEN Fail(0, "User Registration", d, "Failed to register user: " \o email,
                  navigate, <<Call(0, "navigate_to_registration_page", "raised")>>)
        ELSE IF register.raised
        THEN Fail(0, "User Registration", d, "Failed to register user: " \o email,
                  register.exc,
                  CallsUpTo(0, <<"navigate_to_registration_page", "register_new_user">>, 2))
        ELSE IF ~register.value
        THEN Fail(0, "User Registration", d, "Failed to register user: " \o email,
                  "User registration failed",
                  CallsUpTo(0, <<"navigate_to_registration_page", "register_new_user">>, 0)
                      \o <<Screenshot(0, "registration_failed")>>)
        ELSE Succeed(0, "User Registration", d, "Registered user: " \o email,
                     CallsUpTo(0, <<"navigate_to_registration_page", "register_new_user">>, 0)
                         \o <<Screenshot(0, "registration_successful")>>,
                     "step1")
    /\ UNCHANGED <<test, files, email, products, loop, site, last_call, runner, issued, sessions>>

\* The calls of step 1 and what they returned: is_logged_in(), and logout()
\* when the session was observed as authenticated.
LogoutCalls(is_logged_in, logout_success) ==
    <<Call(1, "is_logged_in", "ok"), Returned(1, "is_logged_in", strbool(is_logged_in))>>
        \o (IF ~is_logged_in THEN << >>
            ELSE IF logout_success.raised THEN <<Call(1, "logout", "raised")>>
            ELSE <<Call(1, "logout", "ok"),
                   Returned(1, "logout", strbool(logout_success.value))>>)

\* A faulty step 1 that calls logout() and never asserts what it returned:
\* the logout property C28 has to tell it from Step1.
Step1_unasserted ==
    /\ test = "e2e" /\ pc = "step1"
    /\ \E d \in Elapsed, is_logged_in \in BOOLEAN, still_logged_in \in BOOLEAN,
          click \in ActionOutcomes, login_visible \in BOOLEAN :
        LET logout_success == logout(still_logged_in, click, login_visible)
        IN  IF is_logged_in /\ logout_success.raised
            THEN Fail(1, "Logout After Registration", d,
                      "Failed to logout after registration", logout_success.exc,
                      LogoutCalls(is_logged_in, logout_success))
            ELSE Succeed(1, "Logout After Registration", d,
                         "User logged out successfully after registration",
                         LogoutCalls(is_logged_in, logout_success), "step2")
    /\ UNCHANGED <<test, files, email, products, loop, site, last_call, runner, issued, sessions>>

\* Step 1: Logout after registration.
Step1 ==
    /\ test = "e2e" /\ pc = "step1"
    /\ \E d \in Elapsed, is_logged_in \in BOOLEAN, still_logged_in \in BOOLEAN,
          click \in ActionOutcomes, login_visible \in BOOLEAN :
        LET logout_success == logout(still_logged_in, click, login_visible)
        IN  IF ~is_logged_in
            THEN Succeed(1, "Logout After Registration", d,
                         "User logged out successfully after registration",
                         LogoutCalls(is_logged_in, logout_success), "step2")
            ELSE IF logout_success.raised
            THEN Fail(1, "Logout After Registration", d,
                      "Failed to logout after registration", logout_success.exc,
                      LogoutCalls(is_logged_in, logout_success))
            ELSE IF ~logout_success.value
            THEN Fail(1, "Logout After Registration", d,
                      "Failed to logout after registration", "Logout failed",
                      LogoutCalls(is_logged_in, logout_success))
            ELSE Succeed(1, "Logout After Registration", d,
                         "User logged out successfully after registration",
                         LogoutCalls(is_logged_in, logout_success), "step2")
    /\ UNCHANGED <<test, files, email, products, loop, site, last_call, runner, issued, sessions>>

\* Step 2: Login with newly created credentials.
Step2 ==
    /\ test = "e2e" /\ pc = "step2"
    /\ \E d \in Elapsed, actions \in ActionOutcomes, logged_in \in BOOLEAN :
        LET login_success == login(actions, logged_in)
        IN  IF login_success.raised
            THEN Fail(2, "Login with New Credentials", d,
                      "Failed to login with new credentials: " \o email,
                      login_success.exc, <<Call(2, "login", "raised")>>)
            ELSE IF ~login_success.value
            THEN Fail(2, "Login with New Credentials", d,
                      "Failed to login with new credentials: " \o email,
                      "Login with newly created credentials failed",
                      <<Call(2, "login", "ok"),
                        Returned(2, "is_logged_in", strbool(logged_in)),
                        Screenshot(2, "login_failed")>>)
            ELSE Succeed(2, "Login with New Credentials", d,
                         "Successfully logged in with new credentials: " \o email,
                         <<Call(2, "login", "ok"),
                           Returned(2, "is_logged_in", strbool(logged_in)),
                           Screenshot(2, "login_successful")>>,
                         "step3")
    /\ UNCHANGED <<test, files, email, products, loop, site, last_call, runner, issued, sessions>>

\* min(3, len(products_to_add)): the length of products_to_add[:3].
Attempted == IF products < AddLimit THEN products ELSE AddLimit

\* A faulty pass of the loop that tries the same product again and again
\* when its search times out: the termination property C18 has to tell it
\* from Step3_Product.
Step3_Product_again ==
    /\ test = "e2e" /\ pc = "step3" /\ i < Attempted
    /\ Invoke(<<Call(3, "search_product", "raised")>>)
    /\ UNCHANGED <<test, pc, now, reporters, files, email, products, loop, site, last_call,
                   runner, issued, sessions>>

\* A faulty pass of the loop that counts a product as soon as the search has
\* results, before add_to_cart_from_listing: the cart-population property C6
\* has to tell it from Step3_Product.
Step3_Product_early ==
    /\ test = "e2e" /\ pc = "step3" /\ i < Attempted
    /\ \E add \in {"ok", "raised"} :
        /\ Invoke(CallsUpTo(3, <<"search_product", "get_search_results_count",
                                 "add_to_cart_from_listing">>,
                            IF add = "raised" THEN 3 ELSE 0))
        /\ cart_adds' = IF add = "ok" THEN cart_adds + 1 ELSE cart_adds
        /\ added_count' = added_count + 1
    /\ i' = i + 1
    /\ UNCHANGED <<test, pc, now, reporters, files, email, products, site, last_call, runner, issued, sessions>>

\* A faulty pass of the loop that lets a failed search end the loop, the
\* products after it never tried: the loop property C27 has to tell it from
\* Step3_Product.
Step3_Product_abort ==
    /\ test = "e2e" /\ pc = "step3" /\ i < Attempted
    /\ Invoke(<<Call(3, "search_product", "raised")>>)
    /\ i' = Attempted
    /\ UNCHANGED <<test, pc, now, reporters, files, email, products, cart_adds, added_count,
                   site, last_call, runner, issued, sessions>>

\* Step 3, one pass of the loop over products_to_add[:3].  An exception of
\* search_product, add_to_cart_from_listing or click_logo is caught and logged;
\* get_search_results_count and close_notification catch their own.
Step3_Product ==
    /\ test = "e2e" /\ pc = "step3" /\ i < Attempted
    /\ \E search \in {"ok", "raised"}, results \in 0..1, add \in {"ok", "raised"},
          logo \in {"ok", "raised"} :
        IF search = "raised"
        THEN /\ Invoke(<<Call(3, "search_product", "raised")>>)
             /\ UNCHANGED <<added_count, cart_adds>>
        ELSE IF results = 0
        THEN /\ Invoke(CallsUpTo(3, <<"search_product", "get_search_results_count">>, 0))
             /\ UNCHANGED <<added_count, cart_adds>>
        ELSE IF add = "raised"
        THEN /\ Invoke(CallsUpTo(3, <<"search_product", "get_search_results_count",
                                      "add_to_cart_from_listing">>, 3))
             /\ UNCHANGED <<added_count, cart_adds>>
        ELSE /\ Invoke(CallsUpTo(3, <<"search_product", "get_search_results_count",
                                      "add_to_cart_from_listing", "close_notification",
                                      "click_logo">>,
                                 IF logo = "raised" THEN 5 ELSE 0))
             /\ cart_adds' = cart_adds + 1
             /\ added_count' = added_count + 1
    /\ i' = i + 1
    /\ UNCHANGED <<test, pc, now, reporters, files, email, products, site, last_call, runner, issued, sessions>>

\* Step 3, after the loop: assert added_count > 0.  The time the loop took
\* passes here: nothing reads the clock between timer.start() and timer.stop().
Step3_Finish ==
    /\ test = "e2e" /\ pc = "step3" /\ i = Attempted
    /\ \E d \in Elapsed :
        IF added_count > 0
        THEN Succeed(3, "Add Products to Cart", d,
                     "Added " \o str(added_count) \o " products to cart", << >>, "step4")
        ELSE Fail(3, "Add Products to Cart", d,
                  "Only added " \o str(added_count) \o " products",
                  "Failed to add any products to cart", << >>)
    /\ UNCHANGED <<test, files, email, products, loop, site, last_call, runner, issued, sessions>>

\* Every string get_cart_total returns on the pages the test may meet.
CartTotals ==
    {get_cart_total(probe, fallback, unexpected) :
        probe \in CartProbes, fallback \in FallbackOutcomes, unexpected \in BOOLEAN}

\* Step 4: Navigate to cart and validate items.
Step4 ==
    /\ test = "e2e" /\ pc = "step4"
    /\ \E d \in Elapsed, navigate \in ActionOutcomes, cart_items_count \in 0..MaxCartItems,
          cart_total \in CartTotals :
        IF navigate # "ok"
        THEN /\ Fail(4, "Cart Validation", d, "Failed to validate cart", navigate,
                     <<Call(4, "navigate_to_shopping_cart", "raised")>>)
             /\ cart_seen' = cart_seen
        ELSE IF cart_items_count = 0
        THEN /\ Fail(4, "Cart Validation", d, "Failed to validate cart", "Cart is empty",
                     CallsUpTo(4, <<"navigate_to_shopping_cart", "get_cart_items_count">>, 0))
             /\ cart_seen' = <<cart_items_count>>
        ELSE /\ Succeed(4, "Cart Validation", d,
                        "Cart items: " \o str(cart_items_count) \o ", Total: " \o cart_total,
                        CallsUpTo(4, <<"navigate_to_shopping_cart", "get_cart_items_count",
                                       "get_product_names", "get_cart_total">>, 0),
                        "step5")
             /\ cart_seen' = <<cart_items_count>>
    /\ UNCHANGED <<test, files, email, products, loop, signal, last_call, runner, issued, sessions>>

\* Step 5: Proceed to checkout.
Step5 ==
    /\ test = "e2e" /\ pc = "step5"
    /\ \E d \in Elapsed, proceed \in ActionOutcomes :
        IF proceed # "ok"
        THEN Fail(5, "Proceed to Checkout", d, "Failed to proceed to checkout", proceed,
                  <<Call(5, "proceed_to_checkout", "raised")>>)
        ELSE Succeed(5, "Proceed to Checkout", d, "Successfully navigated to checkout",
                     <<Call(5, "proceed_to_checkout", "ok")>>, "step6")
    /\ UNCHANGED <<test, files, email, products, loop, site, last_call, runner, issued, sessions>>

\* A faulty order of step 7 that selects the payment method before the
\* shipping method: the wizard-order property C8 has to tell it from
\* CheckoutActions.
CheckoutActions_reordered ==
    <<"click_shipping_continue", "select_payment_method",
      "click_payment_method_continue", "select_shipping_method",
      "click_shipping_method_continue", "click_payment_info_continue",
      "click_confirm_order">>

\* The wizard actions of step 6 and of step 7, in the order the test calls them.
BillingActions == <<"fill_billing_address", "click_billing_continue">>
CheckoutActions ==
    <<"click_shipping_continue", "select_shipping_method",
      "click_shipping_method_continue", "select_payment_method",
      "click_payment_method_continue", "click_payment_info_continue",
      "click_confirm_order">>

\* The city and country of the billing address come from the test data file;
\* one pair stands for them.
BillingDetails == "Billing address: " \o "New York" \o ", " \o "United States"

\* Step 6: Fill billing address.  f is the action that raises (0: none).
Step6 ==
    /\ test = "e2e" /\ pc = "step6"
    /\ \E d \in Elapsed, f \in 0..Len(BillingActions), e \in Exceptions :
        IF f # 0
        THEN Fail(6, "Fill Billing Address", d, "Failed to fill billing address", e,
                  CallsUpTo(6, BillingActions, f))
        ELSE Succeed(6, "Fill Billing Address", d, BillingDetails,
                     CallsUpTo(6, BillingActions, 0), "step7")
    /\ UNCHANGED <<test, files, email, products, loop, site, last_call, runner, issued, sessions>>

\* Step 7: Complete checkout flow (shipping, payment, confirm).
Step7 ==
    /\ test = "e2e" /\ pc = "step7"
    /\ \E d \in Elapsed, f \in 0..Len(CheckoutActions), e \in Exceptions :
        IF f # 0
        THEN Fail(7, "Complete Checkout (Shipping, Payment, Confirm)", d,
                  "Failed to complete checkout flow", e, CallsUpTo(7, CheckoutActions, f))
        ELSE Succeed(7, "Complete Checkout (Shipping, Payment, Confirm)", d,
                     "Shipping: Ground, Payment: Cash on Delivery",
                     CallsUpTo(7, CheckoutActions, 0), "step8")
    /\ UNCHANGED <<test, files, email, products, loop, site, last_call, runner, issued, sessions>>

\* The texts the order-completed title may show.
SuccessTexts ==
    {"Your order has been successfully processed!", "ORDER PROCESSED",
     "Your order could not be completed at this time, sorry"}

\* Step 8: Validate order completion.  found: the success title appeared
\* within the wait of get_text.
Step8 ==
    /\ test = "e2e" /\ pc = "step8"
    /\ \E d \in Elapsed, found \in BOOLEAN, text \in SuccessTexts :
        LET success_message == get_order_success_message(found, text)
        IN  /\ signal' = IF found THEN "seen" ELSE "timed_out"
            /\ IF ~MessageAccepted(success_message)
               THEN Fail(8, "Order Completion Validation", d,
                         "Failed to validate order completion",
                         "Unexpected success message: " \o success_message,
                         IF found
                         THEN <<Call(8, "get_order_success_message", "ok"),
                                Returned(8, "get_order_success_message", success_message)>>
                         ELSE <<Call(8, "get_order_success_message", "ok"),
                                Returned(8, "get_order_success_message", success_message),
                                Screenshot(8, "element_not_found")>>)
               ELSE Succeed(8, "Order Completion Validation", d,
                            "Order confirmed. Message: "
                                \o Prefix(success_message, MessageCut) \o "...",
                            CallsUpTo(8, <<"get_order_success_message", "get_order_number">>, 0)
                                \o <<Returned(8, "get_order_success_message", success_message),
                                      Screenshot(8, "order_confirmation_final")>>,
                            "report")
    /\ UNCHANGED <<test, files, email, products, loop, cart_seen, last_call, runner, issued, sessions>>

\* CSVReporter.generate_report: the file at csv_file is written whole, or
\* open() raises and the error is raised again.
generate_report(disk, reporter, writable) ==
    IF writable THEN (reporter.csv_file :> ReportFile(reporter.steps)) @@ disk ELSE disk

\* Lines 375-377: add_summary(), generate_report().
Report ==
    /\ test = "e2e" /\ pc = "report"
    /\ \E writable \in BOOLEAN :
        LET summed == [reporters[1] EXCEPT !.steps = add_summary(@)]
        IN  /\ reporters' = [reporters EXCEPT ![1] = summed]
            /\ files' = generate_report(files, summed, writable)
            /\ pc' = IF writable THEN "passed" ELSE "raised"
    /\ UNCHANGED <<test, now, invoked, wizard, email, products, loop, site, last_call, runner, issued, sessions>>

(* ---------- CheckoutPage.complete_checkout_flow and its test ---------- *)

\* The nine wizard actions complete_checkout_flow calls, in its order.
FlowActions ==
    <<"fill_billing_address", "click_billing_continue", "click_shipping_continue",
      "select_shipping_method", "click_shipping_method_continue",
      "select_payment_method", "click_payment_method_continue",
      "click_payment_info_continue", "click_confirm_order">>

\* A faulty complete_checkout_flow that answers False when a wizard action
\* fails, instead of raising: the flow property C25 has to tell it from
\* complete_checkout_flow.
complete_checkout_flow_quiet(f, e, completed) ==
    IF f # 0 THEN Ret(FALSE) ELSE Ret(completed)

\* CheckoutPage.complete_checkout_flow: f is the action that raises (0: none),
\* e what it raises, completed what is_order_completed() returns.
complete_checkout_flow(f, e, completed) ==
    IF f # 0 THEN Raise(e) ELSE Ret(completed)

\* test_order_confirmation_message, lines 527-531: to the cart, to checkout.
Confirmation_Checkout ==
    /\ test = "order_confirmation" /\ pc = "cart"
    /\ \E f \in 0..2 :
        /\ Invoke(CallsUpTo(-1, <<"navigate_to_shopping_cart", "proceed_to_checkout">>, f))
        /\ pc' = IF f = 0 THEN "flow" ELSE "raised"
    /\ UNCHANGED <<test, now, reporters, files, email, products, loop, site, last_call, runner, issued, sessions>>

\* Lines 534-540: complete_checkout_flow(...), assert checkout_success.
Confirmation_Flow ==
    /\ test = "order_confirmation" /\ pc = "flow"
    /\ \E f \in 0..Len(FlowActions), e \in Exceptions, completed \in BOOLEAN :
        LET checkout_success == complete_checkout_flow(f, e, completed)
        IN  /\ Invoke(CallsUpTo(-1, FlowActions, f)
                          \o <<Screenshot(-1, IF f # 0 THEN "checkout_flow_exception"
                                              ELSE IF completed
                                              THEN "order_completed_successfully"
                                              ELSE "order_completion_failed")>>
                          \o (IF checkout_success.raised THEN << >>
                              ELSE <<Returned(-1, "complete_checkout_flow",
                                              strbool(checkout_success.value))>>))
            /\ signal' = IF f # 0 THEN signal
                         ELSE IF completed THEN "seen" ELSE "timed_out"
            /\ pc' = IF checkout_success.raised \/ ~checkout_success.value
                     THEN "raised" ELSE "confirm"
    /\ UNCHANGED <<test, now, reporters, files, email, products, loop, cart_seen, last_call, runner, issued, sessions>>

\* Lines 542-547: the success message and the order number are not empty.
Confirmation_Check ==
    /\ test = "order_confirmation" /\ pc = "confirm"
    /\ \E found \in BOOLEAN, text \in SuccessTexts, order_number \in {"", "Order number: 1"} :
        LET success_message == get_order_success_message(found, text)
        IN  /\ Invoke(IF success_message = ""
                      THEN <<Call(-1, "get_order_success_message", "ok")>>
                      ELSE CallsUpTo(-1, <<"get_order_success_message",
                                           "get_order_number">>, 0))
            /\ pc' = IF success_message = "" \/ order_number = ""
                     THEN "raised" ELSE "passed"
    /\ UNCHANGED <<test, now, reporters, files, email, products, loop, site, last_call, runner, issued, sessions>>

(* --------------------------- specification ---------------------------- *)

Init ==
    /\ test \in {"e2e", "order_confirmation"}
    /\ pc = IF test = "e2e" THEN "setup" ELSE "cart"
    /\ now = 0
    /\ reporters = << >>
    /\ files = << >>
    /\ invoked = {}
    /\ wizard = << >>
    /\ cart_adds = 0
    /\ cart_seen = << >>
    /\ signal = "unknown"
    /\ email = ""
    /\ products \in 0..MaxProducts
    /\ added_count = 0
    /\ i = 0
    /\ last_call = NoCall
    /\ process = << >>
    /\ exit_status = << >>
    /\ issued = << >>
    /\ sessions = << >>

Next ==
    \/ Setup
    \/ Step0
    \/ Step1
    \/ Step2
    \/ Step3_Product
    \/ Step3_Finish
    \/ Step4
    \/ Step5
    \/ Step6
    \/ Step7
    \/ Step8
    \/ Report
    \/ Confirmation_Checkout
    \/ Confirmation_Flow
    \/ Confirmation_Check

Spec == Init /\ [][Next]_vars

(* ------------------- the reporter, through its interface -------------- *)

\* The values of the status argument, as add_step documents them.
Statuses == {"SUCCESS", "FAILED"}

\* The rows of the reporter under study.
rows == reporters[1].steps

\* reporter.add_step(...), with the next step number or a number already used.
Reporter_add_step ==
    /\ test = "reporter" /\ Len(rows) < MaxRows
    /\ \E step_number \in {0, Len(rows)}, status \in Statuses, duration \in 0..MaxDuration :
        /\ reporters' = [reporters EXCEPT ![1].steps =
                            add_step(@, step_number, "Step " \o str(step_number), status,
                                     duration, "",
                                     IF status = "FAILED" THEN "AssertionError" ELSE "")]
        /\ last_call' = ReporterCall("add_step", step_number, status, duration)
    /\ UNCHANGED <<test, pc, now, files, invoked, wizard, email, products, loop, site, runner, issued, sessions>>

\* reporter.add_summary()
Reporter_add_summary ==
    /\ test = "reporter" /\ Len(rows) < MaxRows
    /\ reporters' = [reporters EXCEPT ![1].steps = add_summary(@)]
    /\ last_call' = ReporterCall("add_summary", 0, "", 0)
    /\ UNCHANGED <<test, pc, now, files, invoked, wizard, email, products, loop, site, runner, issued, sessions>>

\* A faulty generate_report call that logs the write error and returns the
\* path as if the file had been written: C26 has to tell it from
\* Reporter_generate_report.
Reporter_generate_report_swallowed ==
    /\ test = "reporter"
    /\ \E writable \in BOOLEAN :
        /\ files' = generate_report(files, reporters[1], writable)
        /\ last_call' = ReporterCall("generate_report", 0, "written", 0)
    /\ UNCHANGED <<test, pc, now, reporters, invoked, wizard, email, products, loop, site, runner, issued, sessions>>

\* reporter.generate_report()
Reporter_generate_report ==
    /\ test = "reporter"
    /\ \E writable \in BOOLEAN :
        /\ files' = generate_report(files, reporters[1], writable)
        /\ last_call' = ReporterCall("generate_report", 0,
                                     IF writable THEN "written" ELSE "raised", 0)
    /\ UNCHANGED <<test, pc, now, reporters, invoked, wizard, email, products, loop, site, runner, issued, sessions>>

\* reporter.get_report_path(): returns csv_file.
Reporter_get_report_path ==
    /\ test = "reporter"
    /\ last_call' = ReporterCall("get_report_path", 0, reporters[1].csv_file, 0)
    /\ UNCHANGED <<test, pc, now, reporters, files, invoked, wizard, email, products, loop,
                   site, runner, issued, sessions>>

InitReporter ==
    /\ test = "reporter"
    /\ pc = "api"
    /\ now = 0
    /\ reporters = <<CSVReporter("test_execution_report", now)>>
    /\ files = << >>
    /\ invoked = {}
    /\ wizard = << >>
    /\ cart_adds = 0
    /\ cart_seen = << >>
    /\ signal = "unknown"
    /\ email = ""
    /\ products = 0
    /\ added_count = 0
    /\ i = 0
    /\ last_call = NoCall
    /\ process = << >>
    /\ exit_status = << >>
    /\ issued = << >>
    /\ sessions = << >>

NextReporter ==
    \/ Reporter_add_step
    \/ Reporter_add_summary
    \/ Reporter_generate_report
    \/ Reporter_get_report_path

SpecReporter == InitReporter /\ [][NextReporter]_vars

(* ------------------- a report written and read back ------------------- *)

\* Texts that details and error messages hold: empty, with the delimiter,
\* with quotes and a line break.
Texts ==
    {"", "Cart items: 1, Total: $10.00",
     "Message: \"no such element\"\r\n  at <unknown>"}

\* reporter.add_step(...) with the next step number and a text: the details
\* of a step that passed, the error message of one that failed.
Export_add_step ==
    /\ test = "export" /\ Len(rows) < MaxExportRows
    /\ \E status \in Statuses, duration \in 0..MaxDuration, text \in Texts :
        /\ reporters' = [reporters EXCEPT ![1].steps =
                            IF status = "SUCCESS"
                            THEN add_step(@, Len(rows),
                                          "Complete Checkout (Shipping, Payment, Confirm)",
                                          status, duration, text, "")
                            ELSE add_step(@, Len(rows), "Cart Validation", status, duration,
                                          "Failed to validate cart", text)]
        /\ last_call' = ReporterCall("add_step", Len(rows), status, duration)
    /\ UNCHANGED <<test, pc, now, files, invoked, wizard, email, products, loop, site, runner, issued, sessions>>

\* reporter.add_summary()
Export_add_summary ==
    /\ test = "export" /\ Len(rows) < MaxExportRows
    /\ reporters' = [reporters EXCEPT ![1].steps = add_summary(@)]
    /\ last_call' = ReporterCall("add_summary", 0, "", 0)
    /\ UNCHANGED <<test, pc, now, files, invoked, wizard, email, products, loop, site, runner, issued, sessions>>

\* reporter.generate_report()
Export_generate_report ==
    /\ test = "export"
    /\ \E writable \in BOOLEAN :
        /\ files' = generate_report(files, reporters[1], writable)
        /\ last_call' = ReporterCall("generate_report", 0,
                                     IF writable THEN "written" ELSE "raised", 0)
    /\ UNCHANGED <<test, pc, now, reporters, invoked, wizard, email, products, loop, site, runner, issued, sessions>>

InitExport ==
    /\ test = "export"
    /\ pc = "api"
    /\ now = 0
    /\ reporters = <<CSVReporter("test_execution_report", now)>>
    /\ files = << >>
    /\ invoked = {}
    /\ wizard = << >>
    /\ cart_adds = 0
    /\ cart_seen = << >>
    /\ signal = "unknown"
    /\ email = ""
    /\ products = 0
    /\ added_count = 0
    /\ i = 0
    /\ last_call = NoCall
    /\ process = << >>
    /\ exit_status = << >>
    /\ issued = << >>
    /\ sessions = << >>

NextExport ==
    \/ Export_add_step
    \/ Export_add_summary
    \/ Export_generate_report

SpecExport == InitExport /\ [][NextExport]_vars

(* ------------------------ runs that follow one another ---------------- *)

\* The report names: the end-to-end test's and the constructor's default.
ReportNames == {"e2e_checkout_test", "test_execution_report"}

\* A run is over when its summary row is there.
RunOver(reporter) ==
    /\ reporter.steps # << >>
    /\ reporter.steps[Len(reporter.steps)].name = "SUMMARY"

\* The clock advances.
Tick ==
    /\ test = "runs" /\ now < MaxNow
    /\ now' = now + 1
    /\ UNCHANGED <<test, pc, reporters, files, invoked, wizard, email, products, loop, site, last_call, runner, issued, sessions>>

\* A run starts once the one before is over: CSVReporter(report_name).
Run_Start ==
    /\ test = "runs" /\ Len(reporters) < MaxRuns
    /\ reporters # << >> => RunOver(reporters[Len(reporters)])
    /\ \E report_name \in ReportNames :
        reporters' = Append(reporters, CSVReporter(report_name, now))
    /\ UNCHANGED <<test, pc, now, files, invoked, wizard, email, products, loop, site, last_call, runner, issued, sessions>>

\* The run records its outcome as one step row.
Run_Step ==
    /\ test = "runs" /\ reporters # << >>
    /\ reporters[Len(reporters)].steps = << >>
    /\ \E status \in Statuses :
        reporters' = [reporters EXCEPT ![Len(reporters)].steps =
                        add_step(@, 0, "Step 0", status, 0, "",
                                 IF status = "FAILED" THEN "AssertionError" ELSE "")]
    /\ UNCHANGED <<test, pc, now, files, invoked, wizard, email, products, loop, site, last_call, runner, issued, sessions>>

\* The run ends: add_summary(), generate_report().
Run_Report ==
    /\ test = "runs" /\ reporters # << >>
    /\ reporters[Len(reporters)].steps # << >>
    /\ ~RunOver(reporters[Len(reporters)])
    /\ \E writable \in BOOLEAN :
        LET summed == [reporters[Len(reporters)] EXCEPT !.steps = add_summary(@)]
        IN  /\ reporters' = [reporters EXCEPT ![Len(reporters)] = summed]
            /\ files' = generate_report(files, summed, writable)
    /\ UNCHANGED <<test, pc, now, invoked, wizard, email, products, loop, site, last_call, runner, issued, sessions>>

InitRuns ==
    /\ test = "runs"
    /\ pc = "api"
    /\ now = 0
    /\ reporters = << >>
    /\ files = << >>
    /\ invoked = {}
    /\ wizard = << >>
    /\ cart_adds = 0
    /\ cart_seen = << >>
    /\ signal = "unknown"
    /\ email = ""
    /\ products = 0
    /\ added_count = 0
    /\ i = 0
    /\ last_call = NoCall
    /\ process = << >>
    /\ exit_status = << >>
    /\ issued = << >>
    /\ sessions = << >>

NextRuns ==
    \/ Tick
    \/ Run_Start
    \/ Run_Step
    \/ Run_Report

SpecRuns == InitRuns /\ [][NextRuns]_vars

(* ------------------------------ run_tests ----------------------------- *)

\* What subprocess.run(cmd, check=False) gives: the return code of the test
\* process (negative when a signal ended it), or an exception when the
\* process could not be launched.
Completed(code) == [raised |-> FALSE, returncode |-> code]
LaunchFailed == [raised |-> TRUE, returncode |-> 0]
RunOutcomes == {Completed(code) : code \in (0 - MaxSignal)..MaxReturnCode} \cup {LaunchFailed}

\* A faulty main that reports success when the launch fails: the completion
\* status property C17 has to tell it from main.
main_lenient(result) == IF result.raised THEN 0 ELSE result.returncode

\* run_tests.main: result.returncode, or 1 from the except block.
main(result) == IF result.raised THEN 1 ELSE result.returncode

\* Lines 26-27: subprocess.run launches the tests and waits for them.
Runner_Run ==
    /\ test = "runner" /\ pc = "main"
    /\ \E result \in RunOutcomes : process' = <<result>>
    /\ pc' = "returning"
    /\ UNCHANGED <<test, now, reporters, files, invoked, wizard, email, products, loop, site,
                   last_call, exit_status, issued, sessions>>

\* Lines 28-31 and 35: main returns, sys.exit(main()).
Runner_Return ==
    /\ test = "runner" /\ pc = "returning"
    /\ exit_status' = <<main(process[1])>>
    /\ pc' = "exited"
    /\ UNCHANGED <<test, now, reporters, files, invoked, wizard, email, products, loop, site,
                   last_call, process, issued, sessions>>

InitRunner ==
    /\ test = "runner"
    /\ pc = "main"
    /\ now = 0
    /\ reporters = << >>
    /\ files = << >>
    /\ invoked = {}
    /\ wizard = << >>
    /\ cart_adds = 0
    /\ cart_seen = << >>
    /\ signal = "unknown"
    /\ email = ""
    /\ products = 0
    /\ added_count = 0
    /\ i = 0
    /\ last_call = NoCall
    /\ process = << >>
    /\ exit_status = << >>
    /\ issued = << >>
    /\ sessions = << >>

NextRunner ==
    \/ Runner_Run
    \/ Runner_Return

SpecRunner == InitRunner /\ [][NextRunner]_vars

(* --------------- properties of the end-to-end test's report ----------- *)

IsFailed(row) == row.status = "FAILED"

\* The step rows of the end-to-end test's reporter, in order.
StepRows == SelectSeq(report_steps, IsStepRow)

\* The positions of the FAILED step rows.
FailedAt ==
    {k \in 1..Len(report_steps) : IsStepRow(report_steps[k]) /\ IsFailed(report_steps[k])}

\* A FAILED step row is the last row, the test has raised, and no call of a
\* later step was made.
HaltedAtFailure ==
    \A k \in FailedAt :
        /\ k = Len(report_steps)
        /\ pc = "raised"
        /\ \A c \in invoked : c.step <= report_steps[k].number[1]

\* C1: in test_end_to_end_checkout_flow, once a step is recorded FAILED no
\* further row is appended and no further page-object action is invoked: at
\* most one FAILED row exists, it is the last row, and from then on the rows,
\* the calls made and the wizard actions stay as they are.
C1_FailureHalts ==
    /\ [](test = "e2e" => HaltedAtFailure)
    /\ [][(test = "e2e" /\ FailedAt # {}) => UNCHANGED <<reporters, invoked, wizard>>]_vars

\* A run that failed at its third step, after two rows and their calls.
C1_Witness ==
    /\ test = "e2e" /\ pc = "raised"
    /\ Len(report_steps) = 3
    /\ FailedAt = {3}
    /\ Call(2, "login", "ok") \in invoked

\* C2: at every state the step numbers recorded are 0, 1, ..., k in this
\* order: the first step row is 0, each next one is one more, none repeats.
C2_StepNumbersInOrder ==
    \A k \in 1..Len(StepRows) : StepRows[k].number = <<k - 1>>

\* All nine step rows are recorded.
C2_Witness == test = "e2e" /\ Len(StepRows) = 9 /\ StepRows[9].number = <<8>>

\* C4: a run that fails at step k leaves a report file that holds the rows
\* 0..k.  Read at the end of the failed run: the file at csv_file exists and
\* its rows are the reporter's rows.
C4_FailedRunWritesReport ==
    (test = "e2e" /\ pc = "raised" /\ FailedAt # {}) =>
        /\ reporters[1].csv_file \in DOMAIN files
        /\ files[reporters[1].csv_file] = ReportFile(report_steps)

\* The number of the step row of a given step number, or 0 when not recorded.
RowOf(step_number) ==
    IF \E k \in 1..Len(report_steps) : report_steps[k].number = <<step_number>>
    THEN CHOOSE k \in 1..Len(report_steps) : report_steps[k].number = <<step_number>>
    ELSE 0

\* C6: the row of step 3 (POPULATE_CART) is FAILED, and the test halted, when
\* no add-to-cart action completed; it is SUCCESS when at least one did, and
\* then its details give exactly the number of add-to-cart actions completed.
C6_PopulateCart ==
    (test = "e2e" /\ RowOf(3) # 0) =>
        LET row == report_steps[RowOf(3)]
        IN  IF cart_adds = 0
            THEN IsFailed(row) /\ pc = "raised" /\ RowOf(3) = Len(report_steps)
            ELSE /\ row.status = "SUCCESS"
                 /\ row.details = "Added " \o str(cart_adds) \o " products to cart"

\* Four products requested, three tried, one add-to-cart raised, two added.
C6_Witness ==
    /\ test = "e2e" /\ RowOf(3) # 0
    /\ products = 4 /\ cart_adds = 2
    /\ Call(3, "add_to_cart_from_listing", "raised") \in invoked
    /\ report_steps[RowOf(3)].status = "SUCCESS"

\* C7: the row of step 4 (VALIDATE_CART) is FAILED whenever the observed item
\* count is zero, and SUCCESS whenever it is positive, whether or not the total
\* could be read: the details then carry the count and a total that is never
\* empty (the total read, or a placeholder).
C7_ValidateCart ==
    (test = "e2e" /\ RowOf(4) # 0 /\ cart_seen # << >>) =>
        LET row == report_steps[RowOf(4)]
            lead == "Cart items: " \o str(cart_seen[1]) \o ", Total: "
        IN  IF cart_seen[1] = 0
            THEN IsFailed(row) /\ row.error = "Cart is empty" /\ pc = "raised"
            ELSE /\ row.status = "SUCCESS"
                 /\ Prefix(row.details, Len(lead)) = lead
                 /\ Len(row.details) > Len(lead)

\* A cart with an item whose total could not be read.
C7_Witness ==
    /\ test = "e2e" /\ RowOf(4) # 0 /\ cart_seen = <<1>>
    /\ report_steps[RowOf(4)].status = "SUCCESS"
    /\ Contains("Total not displayed", report_steps[RowOf(4)].details)

\* The order of the wizard's actions.
WizardOrder ==
    <<"fill_billing_address", "click_billing_continue", "click_shipping_continue",
      "select_shipping_method", "click_shipping_method_continue",
      "select_payment_method", "click_payment_method_continue",
      "click_payment_info_continue", "click_confirm_order">>

\* C8: in both tests the wizard's actions are invoked in the fixed order,
\* billing fill to confirm order: each one only after all the earlier ones
\* returned, none skipped, none repeated, and all nine in a run that passes.
C8_WizardOrder ==
    /\ Len(wizard) <= Len(WizardOrder)
    /\ \A k \in 1..Len(wizard) :
        /\ wizard[k].method = WizardOrder[k]
        /\ k < Len(wizard) => wizard[k].result = "ok"
    /\ pc = "passed" => Len(wizard) = Len(WizardOrder)

\* complete_checkout_flow went through all nine actions.
C8_Witness ==
    /\ test = "order_confirmation" /\ pc = "confirm"
    /\ Len(wizard) = Len(WizardOrder)
    /\ wizard[Len(wizard)] = Call(-1, "click_confirm_order", "ok")

\* The thirteen stages of the flow.
Stages ==
    <<"REGISTER", "LOGOUT", "LOGIN", "POPULATE_CART", "VALIDATE_CART", "ENTER_CHECKOUT",
      "BILLING", "SHIPPING_ADDR", "SHIPPING_METHOD", "PAYMENT_METHOD", "PAYMENT_INFO",
      "CONFIRM", "VALIDATE_CONFIRMATION">>

\* C9 as stated: on an all-success run the report has one SUCCESS step row for
\* each of the thirteen stages.
C9_ThirteenRows ==
    (test = "e2e" /\ pc = "passed") =>
        /\ Len(StepRows) = Len(Stages)
        /\ \A k \in 1..Len(StepRows) : StepRows[k].status = "SUCCESS"

\* The step each stage is recorded in.
StageStep ==
    [s \in 1..Len(Stages) |-> IF s <= 7 THEN s - 1 ELSE IF s <= 12 THEN 7 ELSE 8]

\* The step names of the end-to-end test, steps 0 to 8.
StepNames ==
    <<"User Registration", "Logout After Registration", "Login with New Credentials",
      "Add Products to Cart", "Cart Validation", "Proceed to Checkout",
      "Fill Billing Address", "Complete Checkout (Shipping, Payment, Confirm)",
      "Order Completion Validation">>

\* C9, amended: on an all-success run the report has exactly nine SUCCESS
\* step rows, numbered 0 to 8 and named as the test's nine steps, in order;
\* every one of the thirteen stages is covered by the row of its step, the
\* stages SHIPPING_ADDR to CONFIRM sharing the row of step 7.
C9_NineRows ==
    (test = "e2e" /\ pc = "passed") =>
        /\ Len(StepRows) = Len(StepNames)
        /\ \A k \in 1..Len(StepRows) :
            /\ StepRows[k].status = "SUCCESS"
            /\ StepRows[k].name = StepNames[k]
            /\ StepRows[k].number = <<k - 1>>
        /\ \A s \in 1..Len(Stages) : RowOf(StageStep[s]) # 0

\* A run that passed and wrote its report.
C9_Witness ==
    /\ test = "e2e" /\ pc = "passed"
    /\ reporters[1].csv_file \in DOMAIN files

\* An error message that tells of a timeout.
TimeoutIndicated(error_message) == Contains("timeout", lower(error_message))

\* C10: when the order-success signal does not show within the wait after the
\* order was confirmed, a FAILED row is recorded whose error message tells of a
\* timeout, and the test halts.
C10_ConfirmTimeoutRecorded ==
    (test = "e2e" /\ signal = "timed_out") =>
        /\ pc = "raised"
        /\ \E k \in FailedAt : TimeoutIndicated(report_steps[k].error)

(* -------------------- properties of the reporter ---------------------- *)

\* C3: add_summary appends a summary row whose status is PASSED when no step
\* recorded before it is FAILED, and FAILED when at least one is.  Stated of
\* the first summary row of the reporter, whose rows before it are step rows.
C3_SummaryStatus ==
    \A k \in 1..Len(rows) :
        (rows[k].name = "SUMMARY" /\ \A j \in 1..(k - 1) : IsStepRow(rows[j])) =>
            /\ rows[k].number = << >>
            /\ rows[k].status =
                   IF \E j \in 1..(k - 1) : IsFailed(rows[j]) THEN "FAILED" ELSE "PASSED"

\* A summary after one step that passed and one that failed.
C3_Witness ==
    /\ Len(rows) = 3
    /\ rows[1].status = "SUCCESS" /\ rows[2].status = "FAILED"
    /\ rows[3].name = "SUMMARY" /\ rows[3].status = "FAILED"

\* C5: two reporters made for two runs under the same report name have
\* different report paths, also when both are made within one clock second.
C5_DistinctPaths ==
    \A a, b \in 1..Len(reporters) :
        (a # b /\ reporters[a].report_name = reporters[b].report_name) =>
            reporters[a].csv_file # reporters[b].csv_file

\* The summary row is among the rows.
Summarised == \E k \in 1..Len(rows) : rows[k].name = "SUMMARY"

\* C11: after add_summary has appended the summary row the reporter is
\* read-only: no later add_step or add_summary changes the list of rows.
C11_ReadOnlyAfterSummary ==
    [][Summarised => rows' = rows]_vars

\* The step number a checking reporter would expect next.
NextExpected == Len(SelectSeq(rows, IsStepRow))

\* C12 as stated: add_step with a step number other than the next expected
\* one fails and leaves the rows unchanged, so that a step row is only ever
\* appended under the next expected number.
C12_DuplicateIndexRejected ==
    [][(Len(rows') > Len(rows) /\ IsStepRow(rows'[Len(rows')]))
            => rows'[Len(rows')].number = <<NextExpected>>]_vars

\* C12, amended: add_step checks no step number.  Whatever number it is
\* given, the next one, one already used or one that skips ahead, the call
\* appends the row that carries this number.
C12_AnyIndexAppended ==
    last_call.op = "add_step" =>
        /\ rows # << >>
        /\ rows[Len(rows)] =
               StepRow(last_call.step_number, "Step " \o str(last_call.step_number),
                       last_call.status, last_call.duration, "",
                       IF last_call.status = "FAILED" THEN "AssertionError" ELSE "")

\* Step number 0 was recorded a second time.
C12_Witness ==
    /\ last_call.op = "add_step" /\ last_call.step_number = 0
    /\ Len(rows) = 2
    /\ rows[1].number = <<0>> /\ rows[2].number = <<0>>

\* C13: for every sequence of recorded steps, the report that
\* generate_report writes, read back, gives the same rows in the same order:
\* step number, name, status, duration, details and error message of each.
C13_RoundTrip ==
    (last_call.op = "generate_report" /\ last_call.status = "written") =>
        /\ reporters[1].csv_file \in DOMAIN files
        /\ ParseReport(files[reporters[1].csv_file]).header = headers
        /\ ParseReport(files[reporters[1].csv_file]).rows = rows

\* A report written with a quoted error message and quoted details in it.
C13_Witness ==
    /\ last_call.op = "generate_report" /\ last_call.status = "written"
    /\ Len(rows) = 2
    /\ rows[1].error = "Message: \"no such element\"\r\n  at <unknown>"
    /\ rows[2].details = "Cart items: 1, Total: $10.00"

\* The file's text reads back as the header record, then the step rows
\* `steps` in order, then one row named SUMMARY with an empty step number.
ArtifactLayout(text, steps) ==
    \A artifact \in {ParseReport(text)} :
        /\ artifact.header = headers
        /\ Len(artifact.rows) = Len(steps) + 1
        /\ \A k \in 1..Len(steps) :
            artifact.rows[k] = steps[k] /\ artifact.rows[k].name # "SUMMARY"
        /\ artifact.rows[Len(artifact.rows)].name = "SUMMARY"
        /\ artifact.rows[Len(artifact.rows)].number = << >>

PcOrder ==
    <<"setup", "step0", "step1", "step2", "step3", "step4", "step5", "step6", "step7",
      "step8", "report", "passed", "raised">>
PcRank(p) == CHOOSE k \in 1..Len(PcOrder) : PcOrder[k] = p

\* The rows recorded under a step number.
RowsOf(step_number) ==
    {k \in 1..Len(report_steps) : report_steps[k].number = <<step_number>>}

\* The steps of the end-to-end test a call was made in.
StepsCalled == {c.step : c \in invoked}

\* Each step that was entered has one row, or is the one under way; the row
\* is FAILED with an error message, or SUCCESS with no call of the step
\* having raised (but inside the loop of step 3, which catches).
OneRowPerStep ==
    /\ \A n \in 0..(Len(PcOrder) - 1) : Cardinality(RowsOf(n)) <= 1
    /\ \A n \in StepsCalled : RowsOf(n) # {} \/ pc = "step" \o str(n)
    /\ \A k \in 1..Len(report_steps) :
        \A row \in {report_steps[k]} :
            IsStepRow(row) =>
                IF IsFailed(row)
                THEN row.error # ""
                ELSE /\ row.status = "SUCCESS"
                     /\ row.error = ""
                     /\ \A c \in invoked :
                         (c.step = row.number[1] /\ c.step # 3) => c.result = "ok"

IsScreenshot(c) ==
    Prefix(c.method, Len("capture_screenshot:")) = "capture_screenshot:"

\* The captures made when a step went well.
SuccessCaptures ==
    {"capture_screenshot:registration_successful", "capture_screenshot:login_successful",
     "capture_screenshot:order_confirmation_final",
     "capture_screenshot:order_completed_successfully"}

\* A capture made because something failed.
IsDiagnostic(c) == IsScreenshot(c) /\ c.method \notin SuccessCaptures

\* C16: whenever a stage of the end-to-end flow is recorded FAILED, a
\* diagnostic screenshot was requested during that stage, whichever way the
\* stage failed: an exception of a page-object method, a method returning
\* False, or a failed assertion on what a query returned.
C16_FailureCaptured ==
    test = "e2e" =>
        \A k \in FailedAt :
            \E c \in invoked : c.step = report_steps[k].number[1] /\ IsDiagnostic(c)

(* ----------------- get_user_credentials, called repeatedly ------------- *)

\* The clock advances between two calls.
Credentials_Tick ==
    /\ test = "credentials" /\ now < MaxNow
    /\ now' = now + 1
    /\ UNCHANGED <<test, pc, reporters, files, invoked, wizard, email, products, loop, site,
                   last_call, runner, issued, sessions>>

\* TestDataReader.get_user_credentials, lines 71-88: the email is built from
\* the clock's whole seconds and the number Faker draws.
Credentials_Get ==
    /\ test = "credentials" /\ Len(issued) < MaxCalls
    /\ \E r \in 0..MaxDraw : email' = get_user_credentials(now, r)
    /\ issued' = Append(issued, email')
    /\ UNCHANGED <<test, pc, now, reporters, files, invoked, wizard, products, loop, site,
                   last_call, runner, sessions>>

InitCredentials ==
    /\ test = "credentials"
    /\ pc = "api"
    /\ now = 0
    /\ reporters = << >>
    /\ files = << >>
    /\ invoked = {}
    /\ wizard = << >>
    /\ cart_adds = 0
    /\ cart_seen = << >>
    /\ signal = "unknown"
    /\ email = ""
    /\ products = 0
    /\ added_count = 0
    /\ i = 0
    /\ last_call = NoCall
    /\ process = << >>
    /\ exit_status = << >>
    /\ issued = << >>
    /\ sessions = << >>

NextCredentials ==
    \/ Credentials_Tick
    \/ Credentials_Get

SpecCredentials == InitCredentials /\ [][NextCredentials]_vars

(* ------------------- conftest.py: the fixtures of a test -------------- *)

\* The fixtures through which the tests of the suite ask for the browser.
Fixtures == {"driver", "logged_in_driver", "cart_with_items"}

\* len(products[:2]) of cart_with_items.
FixtureAttempted == IF products < FixtureLimit THEN products ELSE FixtureLimit

\* One request of the driver fixture: the fixture the test asked through,
\* the browser session ("unopened", "open" or "quit"), and how the test came
\* out ("setup" while its fixtures are set up, "running", "passed", "failed",
\* or "error" when a fixture raised).
Session(fixture, state, outcome) ==
    [fixture |-> fixture, state |-> state, outcome |-> outcome]

\* The request of the test under way.
current == sessions[Len(sessions)]

\* The fixture's `finally` of a faulty driver fixture that quits the browser
\* only after a test that passed: the session property C22 has to tell it
\* from Driver_Teardown.
Driver_Teardown_passed ==
    /\ test = "session" /\ pc = "teardown"
    /\ sessions' = [sessions EXCEPT ![Len(sessions)].state =
                        IF current.outcome = "passed" THEN "quit" ELSE @]
    /\ pc' = "idle"
    /\ cart_adds' = 0 /\ added_count' = 0 /\ i' = 0
    /\ UNCHANGED <<test, now, reporters, files, invoked, wizard, email, products, site,
                   last_call, runner, issued>>

\* driver, lines 91-93: webdriver.Chrome(...) opens the browser, or it (or
\* the driver manager before it) raises.  When it raises, `driver` is not
\* bound in the finally block and there is no browser to quit.
Driver_Open ==
    /\ test = "session" /\ pc = "idle" /\ Len(sessions) < MaxTests
    /\ \E fixture \in Fixtures, opened \in BOOLEAN :
        IF opened
        THEN /\ sessions' = Append(sessions, Session(fixture, "open", "setup"))
             /\ pc' = "opened"
        ELSE /\ sessions' = Append(sessions, Session(fixture, "unopened", "error"))
             /\ pc' = "idle"
    /\ UNCHANGED <<test, now, reporters, files, invoked, wizard, email, products, loop, site,
                   last_call, runner, issued>>

\* driver, lines 94-105: implicitly_wait, maximize_window, get(base_url),
\* then the yield.  When one of them raises, the except block raises again
\* and the finally block quits the browser.
Driver_Navigate ==
    /\ test = "session" /\ pc = "opened"
    /\ \E navigate \in ActionOutcomes :
        IF navigate # "ok"
        THEN /\ sessions' = [sessions EXCEPT ![Len(sessions)] =
                                Session(@.fixture, "quit", "error")]
             /\ pc' = "idle"
        ELSE /\ sessions' = sessions
             /\ pc' = IF current.fixture = "driver" THEN "test" ELSE "logged_in_driver"
    /\ UNCHANGED <<test, now, reporters, files, invoked, wizard, email, products, loop, site,
                   last_call, runner, issued>>

\* logged_in_driver, lines 164-199: register a new user, and log in when
\* the registration has not left the user logged in.  The fixture raises
\* when the registration or the login reports failure, or raises itself.
LoggedIn_Setup ==
    /\ test = "session" /\ pc = "logged_in_driver"
    /\ \E navigate \in ActionOutcomes,
          register \in {Ret(TRUE), Ret(FALSE)} \cup {Raise(e) : e \in Exceptions},
          is_logged_in \in BOOLEAN, actions \in ActionOutcomes, logged_in \in BOOLEAN :
        LET success == login(actions, logged_in)
            raised ==
                \/ navigate # "ok"
                \/ register.raised
                \/ ~register.value
                \/ ~is_logged_in /\ (success.raised \/ ~success.value)
        IN  IF raised
            THEN /\ sessions' = [sessions EXCEPT ![Len(sessions)].outcome = "error"]
                 /\ pc' = "teardown"
            ELSE /\ sessions' = sessions
                 /\ pc' = IF current.fixture = "logged_in_driver"
                          THEN "test" ELSE "cart_with_items"
    /\ \E r \in 0..MaxRandom : email' = get_user_credentials(now, r)
    /\ issued' = Append(issued, email')
    /\ UNCHANGED <<test, now, reporters, files, invoked, wizard, products, loop, site,
                   last_call, runner>>

\* cart_with_items, lines 220-232: one pass of the loop over products[:2].
\* An exception of search_product, add_to_cart_from_listing or click_logo is
\* caught and logged; added_count is counted before click_logo.
Cart_Product ==
    /\ test = "session" /\ pc = "cart_with_items" /\ i < FixtureAttempted
    /\ \E search \in {"ok", "raised"}, results \in 0..1, add \in {"ok", "raised"} :
        IF search = "ok" /\ results > 0 /\ add = "ok"
        THEN /\ cart_adds' = cart_adds + 1
             /\ added_count' = added_count + 1
        ELSE UNCHANGED <<added_count, cart_adds>>
    /\ i' = i + 1
    /\ UNCHANGED <<test, pc, now, reporters, files, invoked, wizard, email, products, site,
                   last_call, runner, issued, sessions>>

\* cart_with_items, lines 234-235: the loop is over, the fixture yields the
\* driver whatever added_count is.
Cart_Yield ==
    /\ test = "session" /\ pc = "cart_with_items" /\ i = FixtureAttempted
    /\ pc' = "test"
    /\ UNCHANGED <<test, now, reporters, files, invoked, wizard, email, products, loop, site,
                   last_call, runner, issued, sessions>>

\* The test function runs with what its fixtures yielded, and passes or
\* fails; pytest then tears the fixtures down.
Test_Body ==
    /\ test = "session" /\ pc = "test"
    /\ \E outcome \in {"passed", "failed"} :
        sessions' = [sessions EXCEPT ![Len(sessions)].outcome = outcome]
    /\ pc' = "teardown"
    /\ UNCHANGED <<test, now, reporters, files, invoked, wizard, email, products, loop, site,
                   last_call, runner, issued>>

\* driver, lines 111-116: the finally block, run when pytest finishes the
\* fixture after the test or after a later fixture raised: driver.quit().
\* The next test starts with a new browser and the locals of its fixtures.
Driver_Teardown ==
    /\ test = "session" /\ pc = "teardown"
    /\ sessions' = [sessions EXCEPT ![Len(sessions)].state = "quit"]
    /\ pc' = "idle"
    /\ cart_adds' = 0 /\ added_count' = 0 /\ i' = 0
    /\ UNCHANGED <<test, now, reporters, files, invoked, wizard, email, products, site,
                   last_call, runner, issued>>

InitSession ==
    /\ test = "session"
    /\ pc = "idle"
    /\ now = 0
    /\ reporters = << >>
    /\ files = << >>
    /\ invoked = {}
    /\ wizard = << >>
    /\ cart_adds = 0
    /\ cart_seen = << >>
    /\ signal = "unknown"
    /\ email = ""
    /\ products \in 0..MaxProducts
    /\ added_count = 0
    /\ i = 0
    /\ last_call = NoCall
    /\ process = << >>
    /\ exit_status = << >>
    /\ issued = << >>
    /\ sessions = << >>

NextSession ==
    \/ Driver_Open
    \/ Driver_Navigate
    \/ LoggedIn_Setup
    \/ Cart_Product
    \/ Cart_Yield
    \/ Test_Body
    \/ Driver_Teardown

SpecSession == InitSession /\ [][NextSession]_vars

(* --------------------- properties of the runner ----------------------- *)

\* C17: main returns the return code of the test process unchanged, returns 1
\* when the test process could not be launched, and returns 0 only if the test
\* process returned 0: a run that fails gives a completion status other than 0.
C17_CompletionStatus ==
    pc = "exited" =>
        /\ exit_status # << >>
        /\ ~process[1].raised => exit_status = <<process[1].returncode>>
        /\ process[1].raised => exit_status = <<1>>
        /\ exit_status = <<0>> => (~process[1].raised /\ process[1].returncode = 0)

\* The tests could not be launched, and main returned 1.
C17_Witness ==
    /\ pc = "exited"
    /\ process = <<LaunchFailed>>
    /\ exit_status = <<1>>

(* ------------------------ properties of the run's end ----------------- *)

\* The report of the end-to-end test is on disk.
ReportWritten ==
    /\ reporters # << >>
    /\ reporters[1].csv_file \in DOMAIN files

\* All of steps 0 to 8 are recorded and the report is written.
EndedPassed ==
    /\ pc = "passed"
    /\ Len(StepRows) = Len(StepNames) /\ FailedAt = {}
    /\ ReportWritten

\* One step is recorded FAILED and the failure went up to the caller.
EndedFailed == pc = "raised" /\ Cardinality(FailedAt) = 1

\* All steps and the summary are recorded, generate_report could not write
\* the file, and its error went up to the caller.
EndedUnwritten ==
    /\ pc = "raised" /\ FailedAt = {}
    /\ Len(StepRows) = Len(StepNames)
    /\ Summarised /\ ~ReportWritten

Ended == EndedPassed \/ EndedFailed \/ EndedUnwritten

SummaryPassed ==
    /\ test = "e2e"
    /\ \E k \in 1..Len(report_steps) :
          ~IsStepRow(report_steps[k]) /\ report_steps[k].status = "PASSED"

\* Every stage post-condition was observed in this run: register_new_user
\* reported success, is_logged_in() was True after the login form was sent,
\* an add-to-cart went through, the cart showed items, and the success
\* message that came back held one of the two words.
PostConditionsObserved ==
    /\ Screenshot(0, "registration_successful") \in invoked
    /\ Returned(2, "is_logged_in", strbool(TRUE)) \in invoked
    /\ Returned(2, "is_logged_in", strbool(FALSE)) \notin invoked
    /\ cart_adds > 0
    /\ cart_seen # << >> /\ cart_seen[1] > 0
    /\ \E m \in SuccessTexts :
          /\ Returned(8, "get_order_success_message", m) \in invoked
          /\ \/ Contains("successfully", lower(m))
             \/ Contains("processed", lower(m))

\* C19: a summary row with status PASSED is produced by the end-to-end flow
\* only in runs where every stage post-condition was observed: registration
\* reported success, the authenticated signal was seen after login, at least
\* one product was added, the cart item count was positive, and the success
\* message held 'successfully' or 'processed'.
C19_PassedOnlyObserved == SummaryPassed => PostConditionsObserved

C19_Witness == SummaryPassed /\ PostConditionsObserved /\ pc = "passed"

\* C20: any two calls of get_user_credentials return different email
\* addresses, two calls within the same clock second included.
C20_DistinctEmails ==
    \A a, b \in 1..Len(issued) : a # b => issued[a] # issued[b]

(* ---------------------- properties of the fixtures -------------------- *)

\* The cart_with_items fixture has handed the session to its test.
CartHandedOver ==
    /\ test = "session" /\ pc = "test"
    /\ current.fixture = "cart_with_items"

\* C21: whenever the cart_with_items fixture hands the session to a test, at
\* least one product has been added to the cart, for every pattern of
\* per-product search and add outcomes.
C21_CartHasItems == CartHandedOver => cart_adds > 0

\* The browser sessions that are open.
OpenSessions == {k \in 1..Len(sessions) : sessions[k].state = "open"}

\* C22: browser sessions are strictly sequential and always released.  At no
\* time are two sessions open at once; only the session of the test under
\* way is ever open; between two tests, and so after the last one, no
\* session is open, whether the test passed, failed or never got its
\* fixtures; and while a session is open the run can still take a step, so
\* that it cannot end before the session is quit.
C22_SessionsReleased ==
    test = "session" =>
        /\ Cardinality(OpenSessions) <= 1
        /\ OpenSessions \subseteq {Len(sessions)}
        /\ pc = "idle" => OpenSessions = {}
        /\ \A k \in 1..Len(sessions) :
            sessions[k].outcome \in {"passed", "failed"} /\ k < Len(sessions)
                => sessions[k].state = "quit"
        /\ OpenSessions # {} => ENABLED <<NextSession>>_vars

\* A test failed, its session was quit, and the next test has its own open.
C22_Witness ==
    /\ test = "session" /\ Len(sessions) = 2
    /\ sessions[1].outcome = "failed" /\ sessions[1].state = "quit"
    /\ sessions[2].state = "open"

(* --------------- properties of the reporter's rows, again ------------- *)

\* C23: the report is append-only during a run.  Every add_step and
\* add_summary call makes the rows one more, puts the new row last and
\* leaves the rows recorded before as they were; generate_report and
\* get_report_path leave the rows unchanged.
C23_AppendOnly ==
    [][test = "reporter" =>
        /\ last_call'.op \in {"add_step", "add_summary"} =>
            /\ Len(rows') = Len(rows) + 1
            /\ SubSeq(rows', 1, Len(rows)) = rows
        /\ last_call'.op = "add_step" =>
            /\ rows'[Len(rows')].number = <<last_call'.step_number>>
            /\ rows'[Len(rows')].status = last_call'.status
        /\ last_call'.op = "add_summary" => rows'[Len(rows')].name = "SUMMARY"
        /\ last_call'.op \in {"generate_report", "get_report_path"} => rows' = rows]_vars

\* Two steps and the summary were recorded, the report was written and its
\* path asked for.
C23_Witness ==
    /\ test = "reporter" /\ last_call.op = "get_report_path"
    /\ Len(rows) = 3 /\ rows[3].name = "SUMMARY"
    /\ reporters[1].csv_file \in DOMAIN files

\* The step rows among the first k - 1 rows of the reporter.
StepRowsBefore(k) == SelectSeq(SubSeq(rows, 1, k - 1), IsStepRow)

\* The details add_summary would give for counts taken over step rows only.
SummaryDetails(steps) ==
    "Total: " \o str(Len(steps)) \o ", Passed: " \o str(CountStatus(steps, "SUCCESS"))
        \o ", Failed: " \o str(Len(steps) - CountStatus(steps, "SUCCESS"))

\* C24: the counts of every summary row satisfy Total = Passed + Failed,
\* where Total is the number of step rows recorded before it and Passed the
\* number of those with status SUCCESS, also for a summary added to a report
\* that already holds a summary row, which is not counted as a step.
C24_SummaryCounts ==
    test = "reporter" =>
        \A k \in 1..Len(rows) :
            ~IsStepRow(rows[k]) => rows[k].details = SummaryDetails(StepRowsBefore(k))

(* ------------------ properties of complete_checkout_flow -------------- *)

\* What complete_checkout_flow returned to test_order_confirmation_message.
FlowReturned(value) == Returned(-1, "complete_checkout_flow", strbool(value)) \in invoked

\* A wizard action of the flow raised.
FlowActionRaised == \E k \in 1..Len(wizard) : wizard[k].result = "raised"

\* All nine wizard actions of the flow were invoked and returned.
FlowActionsCompleted ==
    /\ Len(wizard) = Len(FlowActions)
    /\ \A k \in 1..Len(wizard) : wizard[k] = Call(-1, FlowActions[k], "ok")

WriteFailed == last_call.op = "generate_report" /\ last_call.status = "raised"

\* The file at the reporter's path holds the header and the recorded rows.
ReportOnDisk(disk) ==
    /\ reporters[1].csv_file \in DOMAIN disk
    /\ disk[reporters[1].csv_file] = ReportFile(rows)

\* C26: when the report file cannot be written, generate_report signals the
\* failure to its caller: a call that returns normally has written the rows,
\* a failed one raises.  The failed call leaves the recorded rows and the
\* report path unchanged, so a generate_report call that follows it writes
\* the same rows to the same path.
C26_WriteFailurePropagated ==
    [][test = "reporter" /\ last_call'.op = "generate_report" =>
        /\ reporters' = reporters
        /\ last_call'.status \in {"written", "raised"}
        /\ last_call'.status = "written" => ReportOnDisk(files')
        /\ WriteFailed /\ last_call'.status = "written" => ReportOnDisk(files')]_vars

\* A write failed with two rows recorded and no report on disk.
C26_Witness ==
    /\ test = "reporter" /\ WriteFailed
    /\ Len(rows) = 2
    /\ reporters[1].csv_file \notin DOMAIN files

(* ----------------- properties of the POPULATE_CART loop --------------- *)

\* The calls of step 3 on the product a pass of the loop handles.
ProductCalls == {c \in invoked : c.step = 3}

\* C27: in the POPULATE_CART stage each of the first min(3, N) requested
\* products is attempted exactly once, in list order: every pass of the loop
\* searches for the next product and moves on by one, whatever failed while
\* the product was handled, and the stage ends only after the last of them.
\* The added count never exceeds the number of attempted products.
C27_EveryProductAttempted ==
    /\ [](test = "e2e" => added_count <= i /\ i <= Attempted /\ Attempted <= AddLimit)
    /\ [][test = "e2e" =>
            /\ pc = "step3" /\ pc' = "step3" =>
                /\ i' = i + 1
                /\ \E c \in ProductCalls' : c.method = "search_product"
                /\ added_count' \in {added_count, added_count + 1}
            /\ pc = "step3" /\ pc' # "step3" => i = Attempted
            /\ pc # "step3" => i' = i /\ added_count' = added_count]_vars

\* Three products: the search for one failed, the return home failed after
\* another was added, and all three were tried, two of them added.
C27_Witness ==
    /\ test = "e2e" /\ products = 3 /\ i = 3 /\ added_count = 2
    /\ Call(3, "search_product", "raised") \in invoked
    /\ Call(3, "click_logo", "raised") \in invoked

(* --------------------- properties of the LOGOUT stage ----------------- *)

\* What a call of step 1 returned, as found among the calls `made`.
LogoutObserved(made, method, value) == Returned(1, method, strbool(value)) \in made

\* C28: the LOGOUT stage (step 1) is recorded SUCCESS exactly when the session
\* was observed as not authenticated at the start of the stage, no logout
\* action being performed then, or the logout action returned True.  It is
\* recorded FAILED when the session was authenticated and logout returned
\* False or raised.  The LOGIN stage runs only after a SUCCESS LOGOUT row.
C28_LogoutRow ==
    [][test = "e2e" =>
        /\ pc = "step1" /\ pc' # "step1" =>
            LET row == report_steps'[Len(report_steps')]
                logout_called == \E c \in invoked' : c.step = 1 /\ c.method = "logout"
            IN  /\ Len(report_steps') = Len(report_steps) + 1
                /\ row.number = <<1>>
                /\ row.status \in {"SUCCESS", "FAILED"}
                /\ row.status = "SUCCESS" <=>
                    \/ LogoutObserved(invoked', "is_logged_in", FALSE) /\ ~logout_called
                    \/ LogoutObserved(invoked', "logout", TRUE)
                /\ row.status = "FAILED" <=>
                    /\ LogoutObserved(invoked', "is_logged_in", TRUE)
                    /\ \/ LogoutObserved(invoked', "logout", FALSE)
                       \/ Call(1, "logout", "raised") \in invoked'
                /\ pc' = "step2" <=> row.status = "SUCCESS"
        /\ pc' = "step2" => pc = "step1"
        /\ (\E c \in invoked' \ invoked : c.step = 2) => pc = "step2"]_vars

\* logout() returned False on an authenticated session: the row of step 1 is
\* FAILED and the test raised.
C28_Witness ==
    /\ test = "e2e" /\ pc = "raised"
    /\ LogoutObserved(invoked, "logout", FALSE)
    /\ Len(report_steps) = 2 /\ report_steps[2].status = "FAILED"

(* ---------------- properties of the status and error of rows ---------- *)

\* The message of the assertion of a step, for the steps that assert; the
\* message of step 8 goes on with the success message that was read.
AssertionMessage(step_number) ==
    CASE step_number = 0 -> "User registration failed"
      [] step_number = 1 -> "Logout failed"
      [] step_number = 2 -> "Login with newly created credentials failed"
      [] step_number = 3 -> "Failed to add any products to cart"
      [] step_number = 4 -> "Cart is empty"
      [] step_number = 8 -> "Unexpected success message: "
      [] OTHER -> ""

\* A call of the step raised and was not caught inside the step: the loop of
\* step 3 catches what its calls raise.
StepRaised(step_number) ==
    /\ step_number # 3
    /\ \E c \in invoked : c.step = step_number /\ c.result = "raised"

\* The error message is the text of the failure that ended the step: str(e)
\* of the exception a call raised, or the message of the step's assertion.
IsFailureText(step_number, error) ==
    IF StepRaised(step_number) THEN error \in Exceptions
    ELSE IF step_number = 8
    THEN /\ Prefix(error, Len(AssertionMessage(8))) = AssertionMessage(8)
         /\ Returned(8, "get_order_success_message",
                     SubSeq(error, Len(AssertionMessage(8)) + 1, Len(error))) \in invoked
    ELSE AssertionMessage(step_number) # "" /\ error = AssertionMessage(step_number)

\* C29: in every report reachable in the end-to-end flow each step row has
\* status SUCCESS or FAILED, never PENDING or any other value; every SUCCESS
\* row has an empty error message, and the error message of a FAILED row is
\* the text of the failure that ended the stage.
C29_RowStatusAndError ==
    test = "e2e" =>
        \A k \in 1..Len(report_steps) :
            LET row == report_steps[k]
            IN  IsStepRow(row) =>
                    /\ row.status \in {"SUCCESS", "FAILED"}
                    /\ row.status = "SUCCESS" => row.error = ""
                    /\ row.status = "FAILED" => IsFailureText(row.number[1], row.error)

\* The cart was found empty: four rows SUCCESS, the row of step 4 FAILED with
\* the assertion's message.
C29_Witness ==
    /\ test = "e2e" /\ Len(report_steps) >= 5
    /\ \A k \in 1..4 : report_steps[k].status = "SUCCESS" /\ report_steps[k].error = ""
    /\ report_steps[5].status = "FAILED" /\ report_steps[5].error = "Cart is empty"

(* ------------------- CartPage.get_cart_total, called ------------------ *)

\* The calls get_cart_total makes on a page: the strategies of total_locators
\* it tries, each under its position in the list, and after them the search
\* for every <strong> when none has yielded text.
LocatorCalls(probe, fallback) ==
    {Call(k, total_locators[k], IF probe[k] = "raises" THEN "raised" ELSE "ok") :
        k \in 1..TriedLocators(probe, 1)}
    \cup (IF FirstTotal(probe, 1) # "" THEN {}
          ELSE {Call(Len(total_locators) + 1, "strong",
                     IF fallback.raises THEN "raised" ELSE "ok")})

\* cart_page.get_cart_total() on the page shown.  An exception outside the
\* inner try blocks can only come before the loop: no strategy is tried then.
Cart_get_cart_total ==
    /\ test = "cart_total" /\ pc = "page"
    /\ \E unexpected \in BOOLEAN :
        invoked' = (IF unexpected THEN {} ELSE LocatorCalls(cart_seen[1], cart_seen[2]))
                       \cup {Returned(0, "get_cart_total",
                                      get_cart_total(cart_seen[1], cart_seen[2], unexpected))}
    /\ pc' = "returned"
    /\ UNCHANGED <<test, now, reporters, files, wizard, email, products, loop, site, last_call,
                   runner, issued, sessions>>

InitCart ==
    /\ test = "cart_total"
    /\ pc = "page"
    /\ now = 0
    /\ reporters = << >>
    /\ files = << >>
    /\ invoked = {}
    /\ wizard = << >>
    /\ cart_adds = 0
    /\ cart_seen \in CartPages
    /\ signal = "unknown"
    /\ email = ""
    /\ products = 0
    /\ added_count = 0
    /\ i = 0
    /\ last_call = NoCall
    /\ process = << >>
    /\ exit_status = << >>
    /\ issued = << >>
    /\ sessions = << >>

NextCart == Cart_get_cart_total

SpecCart == InitCart /\ [][NextCart]_vars

\* The positions in total_locators of the strategies that were tried.
Tried == {c.step : c \in {d \in invoked : d.step \in 1..Len(total_locators)}}

\* Strategy k is present and yields text that is not empty.
Yields(k) == cart_seen[1][k] \notin {"absent", "raises", ""}

\* The page-wide search was made.
FallbackTried == \E c \in invoked : c.step = Len(total_locators) + 1

\* The page-wide search finds a text that passes for a total.
FallbackYields == ~cart_seen[2].raises /\ \E k \in 1..Len(cart_seen[2].strongs) :
                                              FallbackMatch(cart_seen[2].strongs[k])

CartTotalReturned(total) == Returned(0, "get_cart_total", total) \in invoked

\* C30: get_cart_total tries its locator strategies in their listed order with
\* first-success semantics.  The strategies tried are the first ones of the
\* list, up to the first that is present and yields non-empty text; its text
\* is returned and no later strategy is tried, the page-wide search for a
\* total, the last strategy, included.  The call never signals failure to the
\* caller and always returns a non-empty string: a placeholder when every
\* strategy fails.
C30_FirstSuccess ==
    (test = "cart_total" /\ pc = "returned") =>
        /\ Cardinality({c \in invoked : c.step = 0}) = 1
        /\ \A c \in invoked : c.step = 0 => c.result = "ok"
        /\ ~CartTotalReturned("")
        /\ \E n \in 0..Len(total_locators) : Tried = 1..n
        /\ \A k \in Tried :
            /\ \A j \in 1..(k - 1) : ~Yields(j)
            /\ Yields(k) => /\ CartTotalReturned(cart_seen[1][k])
                            /\ \A j \in Tried : j <= k
                            /\ ~FallbackTried
        /\ (Tried # {} /\ \E k \in 1..Len(total_locators) : Yields(k)) =>
                \E k \in Tried : Yields(k)
        /\ (Tried # {} /\ \A k \in 1..Len(total_locators) : ~Yields(k)) =>
            /\ Tried = 1..Len(total_locators)
            /\ FallbackTried
            /\ ~FallbackYields => CartTotalReturned("Total not displayed")
            /\ FallbackYields => \E k \in 1..Len(cart_seen[2].strongs) :
                                     /\ FallbackMatch(cart_seen[2].strongs[k])
                                     /\ CartTotalReturned(cart_seen[2].strongs[k])
        /\ Tried = {} => CartTotalReturned("Total retrieval failed")

\* The first strategy is absent, the second cannot be read, the third has no
\* text, the fourth yields the total and the two after it would yield a text
\* too: four strategies were tried and the fourth's text returned.
C30_Witness ==
    /\ test = "cart_total" /\ pc = "returned"
    /\ cart_seen[1] = <<"absent", "raises", "", "$10.00", "$12.50", "$10.00">>
    /\ Tried = 1..4
    /\ CartTotalReturned("$10.00")

====
